---------------------------- MODULE Spec2Model ----------------------------
(***************************************************************************)
(* Model of the poly-market-maker keeper core: the OrderBookManager        *)
(* (orderbook.py), the StrategyManager synchronisation tick (strategy.py), *)
(* the bands strategy (strategies/bands.py, strategies/bands_strategy.py)  *)
(* and the ShadowBook price source (simulation/shadow_book.py).            *)
(*                                                                         *)
(* Units.  Prices are integers in thousandths (0.49 is 490), sizes, band   *)
(* amounts and token balances are integers in thousandths of a share,      *)
(* collateral is in units of 1e-6, so that size * price is exact.          *)
(* round(x, MAX_DECIMALS), MAX_DECIMALS = 2, is modelled by rounding to    *)
(* the nearest multiple of RoundStep (0.01), ties to the even multiple.    *)
(***************************************************************************)
EXTENDS Integers, Sequences, FiniteSets, TLC

\* target_price = None, for operators whose prices are integers
NonePrice == 0 - 1000000

(***************************************************************************)
(* Program constants (poly_market_maker/constants.py is not part of the    *)
(* sources; values follow the specification's Constants section).          *)
(***************************************************************************)
PriceUnit == 1000
MIN_TICK == 10
MIN_SIZE == 1000
RoundStep == 10

(***************************************************************************)
(* round(x, MAX_DECIMALS) for a price given in thousandths.                *)
(***************************************************************************)
RoundHalfEven(n, d) ==
    LET q == n \div d
        r == n % d
    IN  IF 2 * r < d THEN q
        ELSE IF 2 * r > d THEN q + 1
        ELSE IF q % 2 = 0 THEN q ELSE q + 1

RoundPrice(x) == RoundHalfEven(x, RoundStep) * RoundStep

Abs(x) == IF x < 0 THEN 0 - x ELSE x

Min(a, b) == IF a < b THEN a ELSE b

Max(a, b) == IF a > b THEN a ELSE b

RECURSIVE SumSeq(_)
SumSeq(s) == IF s = <<>> THEN 0 ELSE Head(s) + SumSeq(Tail(s))

Range(s) == {s[i] : i \in DOMAIN s}

complement(token) == IF token = "A" THEN "B" ELSE "A"

(***************************************************************************)
(* sorted(items, key=..., reverse=...): a stable sort; with reverse the     *)
(* keys descend and equal keys keep their original order.                  *)
(***************************************************************************)
SortedByKey(s, keys, reverse) ==
    LET before(j, i) ==
            \/ (IF reverse THEN keys[j] > keys[i] ELSE keys[j] < keys[i])
            \/ (keys[j] = keys[i] /\ j < i)
        rank(i) == Cardinality({j \in DOMAIN s : before(j, i)}) + 1
    IN  [k \in DOMAIN s |-> s[CHOOSE i \in DOMAIN s : rank(i) = k]]

(***************************************************************************)
(* Band (strategies/bands.py)                                              *)
(***************************************************************************)
apply_margin(price, margin) == RoundPrice(price - margin)

min_price(band, target_price) == apply_margin(target_price, band.max_margin)

buy_price(band, target_price) == apply_margin(target_price, band.avg_margin)

sell_price(band, target_price) ==
    apply_margin(PriceUnit - target_price, 0 - band.avg_margin)

max_price(band, target_price) == apply_margin(target_price, band.min_margin)

includes(band, order, target_price, vanilla_mode) ==
    LET price == IF order.side = "BUY" THEN order.price
                 ELSE IF vanilla_mode
                      THEN RoundPrice(2 * target_price - order.price)
                      ELSE RoundPrice(PriceUnit - order.price)
    IN  price > min_price(band, target_price)
        /\ price < max_price(band, target_price)

(***************************************************************************)
(* Band.excessive_orders: the orders popped from the end of the sorted     *)
(* in-band list until the remaining amount is within max_amount.           *)
(***************************************************************************)
RECURSIVE PopWhileAbove(_, _, _)
PopWhileAbove(sorted, band_amount, max_amount) ==
    IF band_amount > max_amount /\ sorted # <<>>
    THEN LET order == sorted[Len(sorted)]
         IN  <<order>> \o PopWhileAbove(SubSeq(sorted, 1, Len(sorted) - 1),
                                        band_amount - order.size, max_amount)
    ELSE <<>>

\* the sorted in-band list, then the loop
PopSorted(sorted, max_amount) ==
    PopWhileAbove(sorted, SumSeq([i \in DOMAIN sorted |-> sorted[i].size]),
                  max_amount)

\* the three sort orders: first band, last band, any other band
SortInBand(orders_in_band, target_price, is_first_band, is_last_band) ==
    LET price_keys == [i \in DOMAIN orders_in_band |->
                          Abs(orders_in_band[i].price - target_price)]
        size_keys == [i \in DOMAIN orders_in_band |-> orders_in_band[i].size]
    IN  IF is_first_band THEN SortedByKey(orders_in_band, price_keys, TRUE)
        ELSE IF is_last_band THEN SortedByKey(orders_in_band, price_keys, FALSE)
        ELSE SortedByKey(orders_in_band, size_keys, FALSE)

excessive_orders(band, orders, target_price, is_first_band, is_last_band, vanilla_mode) ==
    LET InBand(order) == includes(band, order, target_price, vanilla_mode)
    IN  PopSorted(SortInBand(SelectSeq(orders, InBand), target_price,
                             is_first_band, is_last_band),
                  band.max_amount)

(***************************************************************************)
(* Bands._calculate_virtual_bands.  The virtual bands are the configured   *)
(* Band objects themselves, so raising avg_margin changes the configured   *)
(* band: the result is the band list after the call and the indices of     *)
(* the bands that are used.                                                *)
(***************************************************************************)
calculate_virtual_bands(bs, target_price) ==
    IF target_price <= 0
    THEN [bands |-> bs, virtual |-> <<>>]
    ELSE LET used(i) == max_price(bs[i], target_price) > 0
             rebased(i) == used(i) /\ buy_price(bs[i], target_price) <= 0
             nbs == [i \in DOMAIN bs |->
                        IF rebased(i)
                        THEN [bs[i] EXCEPT !.avg_margin = target_price - MIN_TICK]
                        ELSE bs[i]]
             idx == SelectSeq([i \in DOMAIN bs |-> i], used)
         IN  [bands |-> nbs, virtual |-> idx]

RECURSIVE ExcessiveFrom(_, _, _, _, _, _)
ExcessiveFrom(k, bs, virtual, orders, target_price, vanilla_mode) ==
    IF k > Len(virtual) THEN <<>>
    ELSE excessive_orders(bs[virtual[k]], orders, target_price,
                          k = 1, k = Len(virtual), vanilla_mode)
         \o ExcessiveFrom(k + 1, bs, virtual, orders, target_price, vanilla_mode)

\* a walk that reports BUY orders only
outside_any_band_buys(orders, bs, virtual, target_price, vanilla_mode) ==
    LET Outside(order) ==
            /\ order.side = "BUY"
            /\ ~ \E k \in DOMAIN virtual :
                    includes(bs[virtual[k]], order, target_price, vanilla_mode)
    IN  SelectSeq(orders, Outside)

outside_any_band_orders(orders, bs, virtual, target_price, vanilla_mode) ==
    LET Outside(order) ==
            ~ \E k \in DOMAIN virtual :
                  includes(bs[virtual[k]], order, target_price, vanilla_mode)
    IN  SelectSeq(orders, Outside)

cancellable_orders(bs, orders, target_price, vanilla_mode) ==
    IF target_price = NonePrice
    THEN [bands |-> bs, cancel |-> orders]
    ELSE LET v1 == calculate_virtual_bands(bs, target_price)
             v2 == calculate_virtual_bands(v1.bands, target_price)
         IN  [bands |-> v2.bands,
              cancel |-> ExcessiveFrom(1, v2.bands, v1.virtual, orders,
                                       target_price, vanilla_mode)
                         \o outside_any_band_orders(orders, v2.bands, v2.virtual,
                                                    target_price, vanilla_mode)]

(***************************************************************************)
(* Bands._new_order / _new_order_is_valid and Bands.new_orders             *)
(***************************************************************************)
\* a validity test without the size
new_order_is_valid_any_size(price, size) == price > 0 /\ price < PriceUnit

new_order_is_valid(price, size) ==
    price > 0 /\ price < PriceUnit /\ size >= MIN_SIZE

NewOrder(price, size, side, token) ==
    [id |-> 0, side |-> side, token |-> token, price |-> price, size |-> size]

\* round(min(amount, collateral_balance / buy_price), MAX_DECIMALS)
RoundMinQuotient(amount, collateral_balance, price) ==
    IF amount * price <= collateral_balance
    THEN RoundHalfEven(amount, RoundStep) * RoundStep
    ELSE RoundHalfEven(collateral_balance, RoundStep * price) * RoundStep

BandAmount(band, orders, target_price, vanilla_mode) ==
    LET InBand(order) == includes(band, order, target_price, vanilla_mode)
        inb == SelectSeq(orders, InBand)
    IN  SumSeq([i \in DOMAIN inb |-> inb[i].size])

\* one iteration of the loop over the virtual bands
\* the sell order and the buy order of one band, given the amount already
\* in the band and the two prices
BandOrders(band, band_amount, the_sell_price, the_buy_price, collateral_balance, token_balance, buy_token, sell_token) ==
    LET sell_size == RoundHalfEven(Min(band.avg_amount - band_amount, token_balance),
                                   RoundStep) * RoundStep
        sell_ok == new_order_is_valid(the_sell_price, sell_size)
        amount1 == IF sell_ok THEN band_amount + sell_size ELSE band_amount
        buy_size == RoundMinQuotient(band.avg_amount - amount1, collateral_balance,
                                     the_buy_price)
        buy_ok == amount1 < band.avg_amount
                  /\ new_order_is_valid(the_buy_price, buy_size)
    IN  [orders |-> (IF sell_ok
                     THEN <<NewOrder(the_sell_price, sell_size, "SELL", sell_token)>>
                     ELSE <<>>)
                    \o (IF buy_ok
                        THEN <<NewOrder(the_buy_price, buy_size, "BUY", buy_token)>>
                        ELSE <<>>),
         collateral |-> IF buy_ok
                        THEN collateral_balance - buy_size * the_buy_price
                        ELSE collateral_balance,
         token |-> IF sell_ok THEN token_balance - sell_size ELSE token_balance]

\* an under-filled band gets orders, any other band none
BandOrdersIfBelow(band, band_amount, the_sell_price, the_buy_price, collateral_balance, token_balance, buy_token, sell_token) ==
    IF band_amount < band.min_amount
    THEN BandOrders(band, band_amount, the_sell_price, the_buy_price,
                    collateral_balance, token_balance, buy_token, sell_token)
    ELSE [orders |-> <<>>, collateral |-> collateral_balance,
          token |-> token_balance]

\* one iteration of the loop over the virtual bands
NewOrdersOfBand(band, orders, collateral_balance, token_balance, target_price, buy_token, sell_token, vanilla_mode) ==
    BandOrdersIfBelow(band,
                      BandAmount(band, orders, target_price, vanilla_mode),
                      IF vanilla_mode
                      THEN target_price + (target_price - buy_price(band, target_price))
                      ELSE sell_price(band, target_price),
                      buy_price(band, target_price),
                      collateral_balance, token_balance, buy_token, sell_token)

RECURSIVE NewOrdersFrom(_, _, _, _, _, _, _, _, _, _)
\* the orders of band k, then the later bands with what is left
NewOrdersAfter(r, k, bs, virtual, orders, target_price, buy_token, sell_token, vanilla_mode) ==
    r.orders \o NewOrdersFrom(k + 1, bs, virtual, orders, r.collateral, r.token,
                              target_price, buy_token, sell_token, vanilla_mode)

NewOrdersFrom(k, bs, virtual, orders, collateral_balance, token_balance, target_price, buy_token, sell_token, vanilla_mode) ==
    IF k > Len(virtual) THEN <<>>
    ELSE NewOrdersAfter(NewOrdersOfBand(bs[virtual[k]], orders, collateral_balance,
                                        token_balance, target_price, buy_token,
                                        sell_token, vanilla_mode),
                        k, bs, virtual, orders, target_price, buy_token,
                        sell_token, vanilla_mode)

\* the loop over the bands calculated for the target price
NewOrdersOfBands(v, orders, collateral_balance, token_balance, target_price, buy_token, sell_token, vanilla_mode) ==
    [bands |-> v.bands,
     orders |-> NewOrdersFrom(1, v.bands, v.virtual, orders, collateral_balance,
                              token_balance, target_price, buy_token,
                              sell_token, vanilla_mode)]

new_orders(bs, orders, collateral_balance, token_balance, target_price, buy_token, vanilla_mode) ==
    NewOrdersOfBands(calculate_virtual_bands(bs, target_price), orders,
                     collateral_balance, token_balance, target_price, buy_token,
                     IF vanilla_mode THEN buy_token ELSE complement(buy_token),
                     vanilla_mode)

(***************************************************************************)
(* BandsStrategy.get_orders (strategies/bands_strategy.py)                 *)
(***************************************************************************)
filter_by_corresponding_buy_token(order, buy_token, vanilla_mode) ==
    IF vanilla_mode
    THEN order.token = buy_token
    ELSE (order.side = "BUY" /\ order.token = buy_token)
         \/ (order.side = "SELL" /\ order.token # buy_token)

\* the orders a token's bands look at: both branches of get_orders filter
\* by the token in vanilla mode and by the corresponding buy token otherwise
OrdersOfToken(book_orders, token, vanilla_mode) ==
    LET Keep(order) == filter_by_corresponding_buy_token(order, token, vanilla_mode)
    IN  SelectSeq(book_orders, Keep)

RECURSIVE CancelLoop(_, _, _, _, _, _)
\* the cancellations of token k, then those of the later tokens
CancelAfter(c, k, tokens, vanilla_mode, book_orders, target_prices) ==
    LET rest == CancelLoop(k + 1, c.bands, tokens, vanilla_mode, book_orders,
                           target_prices)
    IN  [bands |-> rest.bands, cancel |-> c.cancel \o rest.cancel]

\* the first loop: the cancellations of every tradable token
CancelLoop(k, bs, tokens, vanilla_mode, book_orders, target_prices) ==
    IF k > Len(tokens) THEN [bands |-> bs, cancel |-> <<>>]
    ELSE CancelAfter(cancellable_orders(bs,
                         OrdersOfToken(book_orders, tokens[k], vanilla_mode),
                         target_prices[tokens[k]], vanilla_mode),
                     k, tokens, vanilla_mode, book_orders, target_prices)

RECURSIVE PlaceLoop(_, _, _, _, _, _, _, _)
\* the new orders of token k, then those of the later tokens with the
\* collateral that is left
PlaceAfter(n, k, tokens, vanilla_mode, book_orders, balances, target_prices, free_collateral_balance) ==
    LET IsBuy(order) == order.side = "BUY"
        buys == SelectSeq(n.orders, IsBuy)
        spent == SumSeq([i \in DOMAIN buys |-> buys[i].size * buys[i].price])
        rest == PlaceLoop(k + 1, n.bands, tokens, vanilla_mode, book_orders,
                          balances, target_prices,
                          free_collateral_balance - spent)
    IN  [bands |-> rest.bands, place |-> n.orders \o rest.place]

\* what the new orders of a token may sell: the balance of the token to
\* sell less what the open sells lock
FreeTokenBalance(orders, balances, token_to_sell) ==
    LET IsSell(order) == order.side = "SELL"
        sells == SelectSeq(orders, IsSell)
    IN  balances[token_to_sell] - SumSeq([i \in DOMAIN sells |-> sells[i].size])

\* the orders of one token, as both loops select them
PlaceOfToken(orders, k, bs, tokens, vanilla_mode, book_orders, balances, target_prices, free_collateral_balance) ==
    PlaceAfter(new_orders(bs, orders, free_collateral_balance,
                          FreeTokenBalance(orders, balances,
                                           IF vanilla_mode THEN tokens[k]
                                           ELSE complement(tokens[k])),
                          target_prices[tokens[k]], tokens[k], vanilla_mode),
               k, tokens, vanilla_mode, book_orders, balances, target_prices,
               free_collateral_balance)

\* the second loop: the placements of every tradable token
PlaceLoop(k, bs, tokens, vanilla_mode, book_orders, balances, target_prices, free_collateral_balance) ==
    IF k > Len(tokens) THEN [bands |-> bs, place |-> <<>>]
    ELSE PlaceOfToken(OrdersOfToken(book_orders, tokens[k], vanilla_mode),
                      k, bs, tokens, vanilla_mode, book_orders, balances,
                      target_prices, free_collateral_balance)

\* the collateral the open buys leave free; "orders" still holds the list
\* of the last tradable token when it is computed
FreeCollateralBalance(orders, orders_to_cancel, balances) ==
    LET IsOpenBuy(order) ==
            order \notin Range(orders_to_cancel) /\ order.side = "BUY"
        open_buys == SelectSeq(orders, IsOpenBuy)
    IN  balances["Collateral"]
        - SumSeq([i \in DOMAIN open_buys |-> open_buys[i].size * open_buys[i].price])

\* the result of get_orders from the results of its two loops
OrdersToCancelAndPlace(c, p) ==
    [bands |-> p.bands, orders_to_cancel |-> c.cancel, orders_to_place |-> p.place]

\* the part of get_orders after the first loop
PlaceAfterCancel(c, tokens, vanilla_mode, book_orders, balances, target_prices) ==
    OrdersToCancelAndPlace(c,
        PlaceLoop(1, c.bands, tokens, vanilla_mode, book_orders, balances,
                  target_prices,
                  FreeCollateralBalance(
                      OrdersOfToken(book_orders, tokens[Len(tokens)], vanilla_mode),
                      c.cancel, balances)))

get_orders(bs, tokens, vanilla_mode, book_orders, balances, target_prices) ==
    PlaceAfterCancel(CancelLoop(1, bs, tokens, vanilla_mode, book_orders,
                                target_prices),
                     tokens, vanilla_mode, book_orders, balances, target_prices)

(***************************************************************************)
(* ShadowBook (simulation/shadow_book.py): the part the synchronisation    *)
(* tick reads.  A side is a function from price to size; an absent cache   *)
(* or time is 0.                                                           *)
(***************************************************************************)
\* {float(x['price']): s for x in levels if (s := float(x['size'])) > 0}
BookSide(levels) ==
    LET kept == {i \in DOMAIN levels : levels[i].size > 0}
        last(p) == CHOOSE i \in kept :
                       /\ levels[i].price = p
                       /\ \A j \in kept : levels[j].price = p => j <= i
    IN  [p \in {levels[i].price : i \in kept} |-> levels[last(p)].size]

MaxOf(S) == CHOOSE x \in S : \A y \in S : y <= x

MinOf(S) == CHOOSE x \in S : \A y \in S : x <= y

\* get_best_bid / get_best_ask: the value returned (0 for None)
get_best_bid(bid_side, cache) ==
    IF cache # 0 THEN cache
    ELSE IF DOMAIN bid_side = {} THEN 0 ELSE MaxOf(DOMAIN bid_side)

get_best_ask(ask_side, cache) ==
    IF cache # 0 THEN cache
    ELSE IF DOMAIN ask_side = {} THEN 0 ELSE MinOf(DOMAIN ask_side)

\* get_mid_price: NonePrice when a side has no best price; book prices are
\* whole cents, so the sum of two of them is even
get_mid_price(bid_side, bid_cache, ask_side, ask_cache) ==
    LET best_bid == get_best_bid(bid_side, bid_cache)
        best_ask == get_best_ask(ask_side, ask_cache)
    IN  IF best_bid = 0 \/ best_ask = 0 THEN NonePrice
        ELSE (best_bid + best_ask) \div 2

(***************************************************************************)
(* ShadowBook.apply_snapshot and apply_delta.  The book is the record      *)
(* [bids, asks, best_bid_cache, best_ask_cache, last_update_time].  A      *)
(* field of a delta message is a record: kind "num" for a value float()    *)
(* accepts (v holds it), "missing" for an absent key, "text" for a value   *)
(* float() rejects.                                                        *)
(***************************************************************************)
Num(v) == [kind |-> "num", v |-> v]

MissingField == [kind |-> "missing", v |-> 0]

TextField == [kind |-> "text", v |-> 0]

\* float(delta_item.get(key)): <<v>>, or <<>> when it raises
parse_float(field) == IF field.kind = "num" THEN <<field.v>> ELSE <<>>

\* a snapshot whose sizes are added to the levels the book holds
apply_snapshot_accumulating(b, snapshot) ==
    LET Added(levels, side) ==
            [p \in DOMAIN levels \cup DOMAIN side |->
                (IF p \in DOMAIN levels THEN levels[p] ELSE 0)
                + (IF p \in DOMAIN side THEN side[p] ELSE 0)]
    IN  [bids |-> Added(b.bids, BookSide(snapshot.bids)),
         asks |-> Added(b.asks, BookSide(snapshot.asks)),
         best_bid_cache |-> 0, best_ask_cache |-> 0, last_update_time |-> 1]

apply_snapshot(b, snapshot) ==
    [bids |-> BookSide(snapshot.bids), asks |-> BookSide(snapshot.asks),
     best_bid_cache |-> 0, best_ask_cache |-> 0, last_update_time |-> 1]

\* where float() meets a level it rejects: in no list, in 'bids', in 'asks'
SnapshotFaults == {"none", "bids", "asks"}

\* apply_snapshot on a snapshot with a malformed level in the list 'fault':
\* the caches are reset first, self.bids is assigned once its
\* comprehension is through, then the comprehension of asks runs
apply_snapshot_raised(b, snapshot, fault) ==
    IF fault = "bids"
    THEN [b EXCEPT !.best_bid_cache = 0, !.best_ask_cache = 0]
    ELSE [b EXCEPT !.best_bid_cache = 0, !.best_ask_cache = 0,
                   !.bids = BookSide(snapshot.bids)]

\* the book after the call and whether the call returned
snapshot_call(b, snapshot, fault) ==
    IF fault = "none"
    THEN [book |-> apply_snapshot(b, snapshot), ret |-> TRUE]
    ELSE [book |-> apply_snapshot_raised(b, snapshot, fault), ret |-> FALSE]

\* side.pop(price, None) for size 0, side[price] = size otherwise
UpdateLevel(levels, price, size) ==
    IF size = 0
    THEN [p \in DOMAIN levels \ {price} |-> levels[p]]
    ELSE [p \in DOMAIN levels \cup {price} |->
             IF p = price THEN size ELSE levels[p]]

\* a bid cache that a removal of its level leaves in place
BidCacheAfterKeeping(cache, price, size) ==
    IF size # 0 /\ cache # 0 /\ price > cache THEN price ELSE cache

\* the best-bid cache after a buy delta
BidCacheAfter(cache, price, size) ==
    IF size = 0 THEN (IF cache = price THEN 0 ELSE cache)
    ELSE IF cache # 0 /\ price > cache THEN price ELSE cache

\* an ask cache that a removal of its level leaves in place
AskCacheAfterKeeping(cache, price, size) ==
    IF size # 0 /\ cache # 0 /\ price < cache THEN price ELSE cache

\* the best-ask cache after a delta of any other side
AskCacheAfter(cache, price, size) ==
    IF size = 0 THEN (IF cache = price THEN 0 ELSE cache)
    ELSE IF cache # 0 /\ price < cache THEN price ELSE cache

\* step 1 of apply_delta: the side 'buy' goes to bids, everything else
\* to asks
DeltaApplied(b, side, price, size) ==
    IF side = "buy"
    THEN [b EXCEPT !.bids = UpdateLevel(b.bids, price, size),
                   !.best_bid_cache = BidCacheAfter(b.best_bid_cache, price, size)]
    ELSE [b EXCEPT !.asks = UpdateLevel(b.asks, price, size),
                   !.best_ask_cache = AskCacheAfter(b.best_ask_cache, price, size)]

\* the comparison of the sampled sanity check: the getter fills its cache,
\* a missing best price or a difference above 0.001 is a desync
CompareBest(b, side, server_best, my_best) ==
    LET filled == IF side = "buy" THEN [b EXCEPT !.best_bid_cache = my_best]
                  ELSE [b EXCEPT !.best_ask_cache = my_best]
    IN  IF my_best = 0 \/ Abs(my_best - server_best) > 1
        THEN [book |-> filled, ret |-> FALSE]
        ELSE [book |-> [filled EXCEPT !.last_update_time = 1], ret |-> TRUE]

\* step 2 of apply_delta, on the sampled calls: float(best_bid / best_ask)
\* with 0 for an absent key
SanityCheck(b, side, best) ==
    LET server_best == IF best.kind = "missing" THEN <<0>> ELSE parse_float(best)
    IN  IF server_best = <<>> THEN [book |-> b, ret |-> FALSE]
        ELSE IF server_best[1] > 0
        THEN CompareBest(b, side, server_best[1],
                         IF side = "buy"
                         THEN get_best_bid(b.bids, b.best_bid_cache)
                         ELSE get_best_ask(b.asks, b.best_ask_cache))
        ELSE [book |-> [b EXCEPT !.last_update_time = 1], ret |-> TRUE]

\* apply_delta after the three fields were read
DeltaChecked(b, delta, sampled) ==
    IF sampled
    THEN SanityCheck(b, delta.side,
                     IF delta.side = "buy" THEN delta.best_bid ELSE delta.best_ask)
    ELSE [book |-> [b EXCEPT !.last_update_time = 1], ret |-> TRUE]

\* apply_delta: the book afterwards and the value returned; sampled is
\* the outcome of random.random() < 0.01
apply_delta(b, delta, sampled) ==
    IF parse_float(delta.price) = <<>> \/ parse_float(delta.size) = <<>>
    THEN [book |-> b, ret |-> FALSE]
    ELSE DeltaChecked(DeltaApplied(b, delta.side, parse_float(delta.price)[1],
                                   parse_float(delta.size)[1]),
                      delta, sampled)

(***************************************************************************)
(* StrategyManager.get_token_prices: the price override (NonePrice when    *)
(* absent), else the ShadowBook mid; <<>> when no price is available.      *)
(***************************************************************************)
\* price_a before its validation: the override, else a positive mid
source_price(price, mid) ==
    IF price # NonePrice THEN price
    ELSE IF mid # NonePrice /\ mid # 0 /\ mid > 0 THEN mid
    ELSE NonePrice

get_token_prices(price, mid) ==
    LET price_a == source_price(price, mid)
    IN  IF price_a = NonePrice \/ price_a <= 0 THEN <<>>
        ELSE LET pa == RoundPrice(price_a)
             IN  <<[A |-> pa, B |-> RoundPrice(PriceUnit - pa)]>>

(***************************************************************************)
(* Bounds of the model                                                     *)
(***************************************************************************)
MaxSync == 2
MaxReconcile == 2
MaxDirectPlace == 1

(***************************************************************************)
(* The configuration and the environment the keeper runs in                *)
(***************************************************************************)
\* App.__init__: OrderBookManager(args.refresh_frequency, max_workers=1)
max_workers == 1

\* strategy configuration: one band, margins 0.01/0.02/0.03, amounts 5/10/20
ConfiguredBands ==
    <<[min_margin |-> 10, avg_margin |-> 20, max_margin |-> 30,
       min_amount |-> 5000, avg_amount |-> 10000, max_amount |-> 20000]>>

\* BandsStrategy.__init__: active_tokens defaults to both, vanilla_mode to False
tradable_tokens == <<"A", "B">>

vanilla_mode == FALSE

\* an order the keeper has on the exchange when it starts
RestingOrder == [id |-> 1, side |-> "BUY", token |-> "A", price |-> 480, size |-> 2000]

\* the order handed to OrderBookManager.place_order
DirectOrder == NewOrder(480, 3000, "BUY", "A")

\* the list handed to OrderBookManager.place_orders by a caller of its own
DirectBatch == <<NewOrder(470, 2000, "BUY", "A"), NewOrder(530, 2000, "BUY", "B")>>

\* a balance that get_balances reports as None
NoneBalance == 0 - 1

\* what get_balances can return
ExchangeBalances == {[Collateral |-> 3000000, A |-> 0, B |-> 4000]}

\* what get_balances returns for an empty wallet and when the collateral
\* balance could not be read
UnusableBalances ==
    {[Collateral |-> 0, A |-> 0, B |-> 0],
     [Collateral |-> NoneBalance, A |-> 0, B |-> 4000]}

\* the book snapshots the market feed can deliver (mid 0.50 and mid 0.52)
Snapshots ==
    {[bids |-> <<[price |-> 480, size |-> 100], [price |-> 490, size |-> 50]>>,
      asks |-> <<[price |-> 510, size |-> 80], [price |-> 520, size |-> 40]>>],
     [bids |-> <<[price |-> 510, size |-> 50]>>,
      asks |-> <<[price |-> 530, size |-> 40]>>]}

\* a book without asks
OneSidedSnapshots ==
    {[bids |-> <<[price |-> 480, size |-> 100]>>, asks |-> <<>>]}

PriceOverrides == {NonePrice}

(***************************************************************************)
(* State.  An optional value is <<>> (None) or <<v>>.                      *)
(***************************************************************************)
VARIABLES
    bands,                      \* Bands.bands of the strategy
    bids, asks,                 \* ShadowBook.bids / asks
    best_bid_cache,             \* ShadowBook._best_bid_cache (0: None)
    best_ask_cache,             \* ShadowBook._best_ask_cache (0: None)
    last_update_time,           \* ShadowBook.last_update_time (0: None)
    bootstrapped,               \* StrategyManager.bootstrapped
    state,                      \* OrderBookManager._state
    refresh_count,              \* OrderBookManager._refresh_count
    currently_placing_orders,   \* OrderBookManager._currently_placing_orders
    orders_placed,              \* OrderBookManager._orders_placed
    order_ids_cancelling,       \* OrderBookManager._order_ids_cancelling
    order_ids_cancelled,        \* OrderBookManager._order_ids_cancelled
    pool,                       \* tasks submitted to the executor, not finished
    ex_orders,                  \* the keeper's open orders at the exchange
    next_id,                    \* the next order id the exchange assigns
    sync,                       \* the synchronize call of the WebSocket worker
    rec,                        \* the reconcile worker
    shut,                       \* App.shutdown on the main thread
    direct,                     \* a caller of OrderBookManager.place_order
    hist,                       \* what the injected functions and tasks did
    listener                    \* the PriceListener and its WebSocket thread

vars == <<bands, bids, asks, best_bid_cache, best_ask_cache, last_update_time,
          bootstrapped, state, refresh_count, currently_placing_orders,
          orders_placed, order_ids_cancelling, order_ids_cancelled, pool,
          ex_orders, next_id, sync, rec, shut, direct, hist, listener>>

bookVars == <<bids, asks, best_bid_cache, best_ask_cache, last_update_time>>

mgrVars == <<state, refresh_count, currently_placing_orders, orders_placed,
             order_ids_cancelling, order_ids_cancelled>>

Ids(orders) == {orders[i].id : i \in DOMAIN orders}

SyncIdle ==
    [pc |-> "idle", n |-> 0, price |-> NonePrice, pending |-> FALSE,
     strategy |-> FALSE, orders |-> <<>>,
     to_cancel |-> <<>>, to_place |-> <<>>, outcome |-> "none",
     target |-> NonePrice, left_out |-> {}, being_cancelled |-> FALSE,
     balances |-> <<>>, price_a |-> NonePrice, propagated |-> FALSE,
     failed_before |-> FALSE]

RecIdle ==
    [pc |-> "begin", cancelled_before |-> {}, placed_before |-> <<>>,
     orders |-> <<>>, balances |-> <<>>, fired |-> FALSE,
     book_before |-> <<>>, quiet |-> TRUE, last |-> "none", in_flight |-> {},
     cancel_done |-> {}]

\* the book as one record
Book(the_bids, the_asks, bid_cache, ask_cache, update_time) ==
    [bids |-> the_bids, asks |-> the_asks, best_bid_cache |-> bid_cache,
     best_ask_cache |-> ask_cache, last_update_time |-> update_time]

\* the last call on the ShadowBook: its name, its argument, the book it
\* met and what it returned; for get_mid_price also whether the call
\* before it was a delta that removed the best bid
BookCall(op, delta, sampled, before, ret, mid, top_bid_removed) ==
    [op |-> op, delta |-> delta, sampled |-> sampled, before |-> before,
     ret |-> ret, mid |-> mid, top_bid_removed |-> top_bid_removed]

NoDelta ==
    [side |-> "missing", price |-> MissingField, size |-> MissingField,
     best_bid |-> MissingField, best_ask |-> MissingField]

NoSnapshot == [bids |-> <<>>, asks |-> <<>>]

\* a call on the strategy: its name, its arguments (the configuration of
\* the constructor; the orders, balances and target prices of get_orders
\* and cancellable_orders), the bands it met, whether it raised and what it
\* returned
StrategyCall(op, config, orders, balances, target_prices, before, raised, to_cancel, to_place) ==
    [op |-> op, config |-> config, orders |-> orders, balances |-> balances,
     target_prices |-> target_prices, before |-> before, raised |-> raised,
     orders_to_cancel |-> to_cancel, orders_to_place |-> to_place]

NoBalances == [Collateral |-> 0, A |-> 0, B |-> 0]

NoTargetPrices == [A |-> NonePrice, B |-> NonePrice]

NoStrategyCall == StrategyCall("none", <<>>, <<>>, NoBalances, NoTargetPrices, <<>>, FALSE, <<>>, <<>>)

NoBookCall == BookCall("none", NoDelta, FALSE, Book(<<>>, <<>>, 0, 0, 0), TRUE, NonePrice, FALSE)

\* the debounce of the PriceListener, in clock ticks
debounce_ms == 2

\* time.time() * 1000 when the listener is built: the epoch clock is far
\* beyond one debounce
StartClock == debounce_ms + 1

\* what the last handled message did: whether _try_trigger_strategy was
\* reached, whether the callback ran, whether an apply_delta call returned
\* the desync signal, whether the handler raised
Handled(kind, tried, fired, desync, raised) ==
    [kind |-> kind, tried |-> tried, fired |-> fired, desync |-> desync,
     raised |-> raised]

NothingHandled == Handled("none", FALSE, FALSE, FALSE, FALSE)

\* PriceListener.__init__: not running, last_trigger_time 0; the thread
\* is not started.  events lists the calls of _try_trigger_strategy: the
\* clock reading of each and whether it invoked the callback
ListenerNew ==
    [pc |-> "new", running |-> FALSE, subscribed |-> FALSE,
     now |-> StartClock, last_trigger_time |-> 0, handled |-> 0,
     events |-> <<>>, last |-> NothingHandled]

(***************************************************************************)
(* utils/auth.py: generate_ws_headers.  A string is a sequence of          *)
(* characters.  A character of the secret is written as a number: 0..63    *)
(* the character of the URL-safe base64 alphabet with that value, PadChar  *)
(* the "=", SpaceChar an ASCII character outside the alphabet, and         *)
(* NonAsciiChar a character outside ASCII.  A digest is not computed: it   *)
(* is the pair of the key and the message that were signed.                *)
(***************************************************************************)
PadChar == 64

SpaceChar == 65

NonAsciiChar == 66

\* str(n) for n >= 0
RECURSIVE DecimalString(_)
DecimalString(n) ==
    LET digit == <<"0", "1", "2", "3", "4", "5", "6", "7", "8", "9">>[(n % 10) + 1]
    IN  IF n < 10 THEN <<digit>> ELSE Append(DecimalString(n \div 10), digit)

\* str(int(time.time())): the clock is given in milliseconds, int() drops
\* the fraction of the second
Timestamp(clock_ms) == DecimalString(clock_ms \div 1000)

\* api_secret + '=' * (-len(api_secret) % 4)
RECURSIVE Padded(_)
Padded(secret) ==
    IF Len(secret) % 4 = 0 THEN secret ELSE Padded(Append(secret, PadChar))

\* binascii.a2b_base64 without strict mode, as base64.urlsafe_b64decode
\* calls it: characters outside the alphabet are skipped, a pad sequence
\* that completes a quad ends the input, and data that ends inside a quad
\* raises.  The result is the bytes, or <<>> and the exception.
RECURSIVE a2b_base64(_, _, _, _, _)
a2b_base64(chars, quad_pos, leftchar, pads, out) ==
    IF chars = <<>>
    THEN (IF quad_pos = 0 THEN [raised |-> FALSE, bytes |-> out]
          ELSE [raised |-> TRUE, bytes |-> <<>>])
    ELSE IF Head(chars) = PadChar
    THEN (IF quad_pos >= 2 /\ quad_pos + pads + 1 >= 4
          THEN [raised |-> FALSE, bytes |-> out]
          ELSE a2b_base64(Tail(chars), quad_pos, leftchar, pads + 1, out))
    ELSE IF Head(chars) > 63
    THEN a2b_base64(Tail(chars), quad_pos, leftchar, pads, out)
    ELSE IF quad_pos = 0
    THEN a2b_base64(Tail(chars), 1, Head(chars), 0, out)
    ELSE IF quad_pos = 1
    THEN a2b_base64(Tail(chars), 2, Head(chars) % 16, 0,
                    Append(out, leftchar * 4 + Head(chars) \div 16))
    ELSE IF quad_pos = 2
    THEN a2b_base64(Tail(chars), 3, Head(chars) % 4, 0,
                    Append(out, leftchar * 16 + Head(chars) \div 4))
    ELSE a2b_base64(Tail(chars), 0, 0, 0, Append(out, leftchar * 64 + Head(chars)))

\* base64.urlsafe_b64decode of a str: a character outside ASCII raises
urlsafe_b64decode(s) ==
    IF \E i \in DOMAIN s : s[i] = NonAsciiChar
    THEN [raised |-> TRUE, bytes |-> <<>>]
    ELSE a2b_base64(s, 0, 0, 0, <<>>)

\* the UTF-8 bytes of a character of the secret
Utf8(c) ==
    IF c < 26 THEN <<65 + c>>
    ELSE IF c < 52 THEN <<97 + (c - 26)>>
    ELSE IF c < 62 THEN <<48 + (c - 52)>>
    ELSE IF c = 62 THEN <<45>>
    ELSE IF c = 63 THEN <<95>>
    ELSE IF c = PadChar THEN <<61>>
    ELSE IF c = SpaceChar THEN <<32>>
    ELSE <<195, 169>>

\* api_secret.encode('utf-8')
RECURSIVE encode_utf8(_)
encode_utf8(s) == IF s = <<>> THEN <<>> ELSE Utf8(Head(s)) \o encode_utf8(Tail(s))

\* a key that is always the raw bytes of the secret
secret_bytes_raw(api_secret) == encode_utf8(api_secret)

\* the try / except of generate_ws_headers: the decoded secret, or its raw
\* bytes when the decoding raises
secret_bytes(api_secret) ==
    IF urlsafe_b64decode(Padded(api_secret)).raised
    THEN encode_utf8(api_secret)
    ELSE urlsafe_b64decode(Padded(api_secret)).bytes

\* hmac.new(key, message, hashlib.sha256).digest()
HmacSha256(key, message) == [key |-> key, message |-> message]

\* base64.urlsafe_b64encode(digest).decode('utf-8')
urlsafe_b64encode(digest) == [urlsafe_b64 |-> digest]

\* timestamp + method + request_path
WsMessage(timestamp) ==
    timestamp \o <<"G", "E", "T">> \o <<"/", "w", "s", "/", "u", "s", "e", "r">>

Headers(api_key, signature_b64, timestamp, api_passphrase) ==
    [api_key |-> api_key, signature |-> signature_b64, timestamp |-> timestamp,
     passphrase |-> api_passphrase]

generate_ws_headers(clock_ms, api_key, api_secret, api_passphrase) ==
    Headers(api_key,
            urlsafe_b64encode(HmacSha256(secret_bytes(api_secret),
                                         WsMessage(Timestamp(clock_ms)))),
            Timestamp(clock_ms), api_passphrase)

\* a call of generate_ws_headers: the clock, the arguments and the result;
\* turn tells a call from the call before it
AuthCall(op, turn, clock_ms, api_key, api_secret, api_passphrase, headers) ==
    [op |-> op, turn |-> turn, clock_ms |-> clock_ms, api_key |-> api_key,
     api_secret |-> api_secret, api_passphrase |-> api_passphrase,
     headers |-> headers]

NoAuthCall == AuthCall("none", 0, 0, "", <<>>, "", Headers("", <<>>, <<>>, ""))

Init ==
    /\ listener = ListenerNew
    /\ bands = ConfiguredBands
    /\ bids = <<>> /\ asks = <<>>
    /\ best_bid_cache = 0 /\ best_ask_cache = 0
    /\ last_update_time = 0
    /\ bootstrapped = FALSE
    /\ state = <<>>
    /\ refresh_count = 0
    /\ currently_placing_orders = 0
    /\ orders_placed = <<>>
    /\ order_ids_cancelling = {}
    /\ order_ids_cancelled = {}
    /\ pool = <<>>
    /\ ex_orders = <<RestingOrder>>
    /\ next_id = 2
    /\ sync = SyncIdle
    /\ rec = RecIdle
    /\ shut = [pc |-> "running", orders |-> <<>>]
    /\ direct = [pc |-> "idle", n |-> 0, batch |-> "ready"]
    /\ hist = [place_calls |-> 0, place_tasks_done |-> 0,
               cancel_calls |-> {}, cancel_tasks_done |-> {},
               cancel_target |-> NonePrice, book_call |-> NoBookCall,
               snapshot |-> NoSnapshot, strategy_call |-> NoStrategyCall,
               first_call |-> NoStrategyCall, auth_call |-> NoAuthCall]

(***************************************************************************)
(* OrderBookManager.get_order_book: the orders list built under the lock   *)
(***************************************************************************)
RECURSIVE AppendPlaced(_, _)
AppendPlaced(orders, placed) ==
    IF placed = <<>> THEN orders
    ELSE AppendPlaced(IF Head(placed).id \notin Ids(orders)
                      THEN Append(orders, Head(placed)) ELSE orders,
                      Tail(placed))

\* the orders list without the filter on the ids being cancelled
BookOrdersWithCancelling(st, placed, cancelling, cancelled) ==
    IF st = <<>> \/ st[1].orders = <<>> THEN <<>>
    ELSE LET Open(order) == order.id \notin cancelled
         IN  SelectSeq(AppendPlaced(st[1].orders[1], placed), Open)

BookOrders(st, placed, cancelling, cancelled) ==
    IF st = <<>> \/ st[1].orders = <<>> THEN <<>>
    ELSE LET Open(order) == order.id \notin cancelling /\ order.id \notin cancelled
         IN  SelectSeq(AppendPlaced(st[1].orders[1], placed), Open)

get_order_book_orders ==
    BookOrders(state, orders_placed, order_ids_cancelling, order_ids_cancelled)

has_pending_cancels == order_ids_cancelling # {}

\* the ids that the filter of get_order_book drops from its list because
\* they are being cancelled
LeftOutAsCancelling(st, placed, cancelling) ==
    IF st = <<>> \/ st[1].orders = <<>> THEN {}
    ELSE Ids(AppendPlaced(st[1].orders[1], placed)) \cap cancelling

(***************************************************************************)
(* OrderBookManager._thread_refresh_order_book: one iteration of the loop  *)
(***************************************************************************)
\* first locked block: remember what was cancelled and placed so far
RecBegin ==
    /\ rec.pc = "begin"
    /\ refresh_count < MaxReconcile
    /\ rec' = [RecIdle EXCEPT !.pc = "fetch",
                              !.cancelled_before = order_ids_cancelled,
                              !.placed_before = orders_placed,
                              !.book_before = get_order_book_orders]
    /\ UNCHANGED <<bands, bookVars, bootstrapped, listener, mgrVars, pool, ex_orders,
                   next_id, sync, shut, direct, hist>>

\* _run_get_orders and _run_get_balances: a failed fetch yields None
RecFetchFrom(balance_set) ==
    /\ rec.pc = "fetch"
    /\ \E fetched_orders \in {<<>>, <<ex_orders>>} :
       \E fetched_balances \in {<<>>} \cup {<<b>> : b \in balance_set} :
          rec' = [rec EXCEPT !.pc = "commit", !.orders = fetched_orders,
                             !.balances = fetched_balances]
    /\ UNCHANGED <<bands, bookVars, bootstrapped, listener, mgrVars, pool, ex_orders,
                   next_id, sync, shut, direct, hist>>

RecFetch == RecFetchFrom(ExchangeBalances)

\* the fetch when get_balances can also report unusable balances
RecFetchUnusable == RecFetchFrom(ExchangeBalances \cup UnusableBalances)

\* a state dictionary rebuilt from the two fetch results alone
RefreshedStateRebuilt(st, fetched_orders, fetched_balances) ==
    <<[orders |-> fetched_orders, balances |-> fetched_balances]>>

\* the state dictionary after the second locked block
RefreshedState(st, fetched_orders, fetched_balances) ==
    LET old == IF st = <<>> THEN [orders |-> <<>>, balances |-> <<>>] ELSE st[1]
    IN  <<[orders |-> IF fetched_orders # <<>> THEN fetched_orders ELSE old.orders,
           balances |-> IF fetched_balances # <<>> THEN fetched_balances
                        ELSE old.balances]>>

\* second locked block, the update report and the end of the iteration
RecCommit ==
    /\ rec.pc = "commit"
    /\ order_ids_cancelled' = order_ids_cancelled \ rec.cancelled_before
    /\ orders_placed' = SubSeq(orders_placed, Len(rec.placed_before) + 1,
                               Len(orders_placed))
    /\ state' = RefreshedState(state, rec.orders, rec.balances)
    /\ refresh_count' = refresh_count + 1
    /\ rec' = [RecIdle EXCEPT
                   !.pc = IF rec.orders = <<>> THEN "stopped" ELSE "begin",
                   !.fired = TRUE,
                   !.in_flight = IF rec.orders = <<>> THEN {}
                                 ELSE order_ids_cancelling \cap Ids(rec.orders[1]),
                   !.last = IF rec.orders = <<>>
                            THEN (IF rec.balances = <<>> THEN "neither"
                                  ELSE "balances_only")
                            ELSE (IF rec.balances = <<>> THEN "orders_only"
                                  ELSE "both")]
    /\ UNCHANGED <<bands, bookVars, bootstrapped, listener, currently_placing_orders,
                   order_ids_cancelling, pool, ex_orders, next_id, sync, shut,
                   direct, hist>>

\* a dispatch or a task completing while a reconcile iteration is between
\* its two locked blocks
RecDisturbed == IF rec.pc \in {"fetch", "commit"}
                THEN [rec EXCEPT !.quiet = FALSE] ELSE rec

\* a cancel task completing without an exception while a reconcile
\* iteration is between its two locked blocks: its ids are remembered
RecCancelDone(ids) ==
    IF rec.pc \in {"fetch", "commit"}
    THEN [rec EXCEPT !.quiet = FALSE, !.cancel_done = @ \cup ids] ELSE rec

(***************************************************************************)
(* PriceListener._handle_single_message on the WebSocket worker: a book    *)
(* event is applied with ShadowBook.apply_snapshot, any other event leaves *)
(* the book alone, and the callback runs StrategyManager.synchronize.      *)
(* synchronize is one step per access to the shared manager.               *)
(***************************************************************************)
\* the events of the feed: <<>> changes nothing, <<s>> is a book snapshot
Events == {<<>>} \cup {<<snapshot>> : snapshot \in Snapshots}

\* gates without the pending-cancel check
SyncGateIgnoringCancels(is_bootstrapped, update_time, pending) ==
    IF ~ is_bootstrapped /\ update_time = 0 THEN "not_ready" ELSE "go"

\* what the gates at the top of synchronize decide
SyncGate(is_bootstrapped, update_time, pending) ==
    IF ~ is_bootstrapped /\ update_time = 0 THEN "not_ready"
    ELSE IF pending THEN "pending"
    ELSE "go"

\* the event, then the bootstrap check and the pending-cancel check
SyncStartOn(events) ==
    /\ sync.pc = "idle"
    /\ sync.n < MaxSync
    /\ \E event \in events, price \in PriceOverrides :
          /\ IF event = <<>>
             THEN UNCHANGED bookVars
             ELSE /\ bids' = BookSide(event[1].bids)
                  /\ asks' = BookSide(event[1].asks)
                  /\ best_bid_cache' = 0
                  /\ best_ask_cache' = 0
                  /\ last_update_time' = 1
          /\ LET gate == SyncGate(bootstrapped, last_update_time',
                                  has_pending_cancels)
             IN  /\ bootstrapped' = (bootstrapped \/ gate # "not_ready")
                 /\ sync' = [SyncIdle EXCEPT
                                 !.n = sync.n + 1,
                                 !.price = price,
                                 !.pending = has_pending_cancels,
                                 !.failed_before =
                                     sync.outcome \in {"raised", "no_balances"},
                                 !.pc = IF gate = "go" THEN "read" ELSE "idle",
                                 !.outcome = IF gate = "go" THEN "running" ELSE gate]
    /\ UNCHANGED <<bands, listener, mgrVars, pool, ex_orders, next_id, rec, shut, direct,
                   hist>>

SyncStart == SyncStartOn(Events)

\* the call when the feed can also deliver a book without asks
SyncStartOneSided ==
    SyncStartOn(Events \cup {<<snapshot>> : snapshot \in OneSidedSnapshots})

\* OrderBookManager.get_order_book: waits for the first refresh, then
\* builds the orders list under the lock
SyncReadOrders ==
    /\ sync.pc = "read"
    /\ state # <<>>
    /\ sync' = [sync EXCEPT
                   !.pc = "rest",
                   !.orders = get_order_book_orders,
                   !.left_out = LeftOutAsCancelling(state, orders_placed,
                                                    order_ids_cancelling)]
    /\ UNCHANGED <<bands, bookVars, bootstrapped, listener, mgrVars, pool, ex_orders,
                   next_id, rec, shut, direct, hist>>

\* a check that only asks for balances to be there
BalancesUsableIfPresent(balances) == balances # <<>>

\* StrategyManager.get_order_book: the balances must exist, none of them
\* may be None and they must not sum to 0
BalancesUsable(balances) ==
    /\ balances # <<>>
    /\ NoneBalance \notin {balances[1].Collateral, balances[1].A, balances[1].B}
    /\ balances[1].Collateral + balances[1].A + balances[1].B # 0

\* a dispatch rule that places in the same call as it cancels
DispatchPlanPlacingToo(orders_to_cancel, orders_to_place) ==
    [cancel |-> orders_to_cancel, place |-> orders_to_place]

\* the dispatch rule at the end of synchronize
DispatchPlan(orders_to_cancel, orders_to_place) ==
    [cancel |-> orders_to_cancel,
     place |-> IF Len(orders_to_cancel) > 0 THEN <<>> ELSE orders_to_place]

\* the strategy has returned: the plan of the call
SyncPlanned(r, target_price, balances, price_a) ==
    /\ bands' = r.bands
    /\ sync' = [sync EXCEPT
                   !.strategy = TRUE,
                   !.balances = balances,
                   !.price_a = price_a,
                   !.being_cancelled = has_pending_cancels,
                   !.target = target_price,
                   !.orders = <<>>,
                   !.to_cancel = r.orders_to_cancel,
                   !.to_place = r.orders_to_place,
                   !.pc = IF r.orders_to_cancel = <<>> /\ r.orders_to_place = <<>>
                          THEN "idle" ELSE "dispatch",
                   !.outcome = IF r.orders_to_cancel = <<>>
                                  /\ r.orders_to_place = <<>>
                               THEN "nothing" ELSE "running"]

\* get_token_prices has returned: no price ends the call, a price runs
\* the strategy on the order book read before
SyncPriced(prices, balances, price_a) ==
    IF prices = <<>>
    THEN /\ sync' = [sync EXCEPT !.pc = "idle", !.orders = <<>>,
                                 !.balances = balances,
                                 !.price_a = price_a,
                                 !.being_cancelled = has_pending_cancels,
                                 !.outcome = "no_price"]
         /\ UNCHANGED bands
    ELSE SyncPlanned(get_orders(bands, tradable_tokens, vanilla_mode,
                                sync.orders, balances[1], prices[1]),
                     prices[1].A, balances, price_a)

\* what the strategy step of a call can raise: nothing, an Exception (a
\* failed assertion, a KeyError) or a BaseException that is no Exception
StrategyFaults == {"none", "Exception", "BaseException"}

\* a handler that catches Exception only
synchronize_catches_exceptions_only(kind) == kind = "Exception"

\* the outer handler of synchronize: except BaseException
synchronize_catches(kind) == kind \in {"Exception", "BaseException"}

\* the strategy step raised: the outer handler logs, the call returns
SyncRaised(kind) ==
    /\ sync' = [sync EXCEPT !.pc = "idle", !.orders = <<>>,
                            !.balances = state[1].balances,
                            !.being_cancelled = has_pending_cancels,
                            !.outcome = "raised",
                            !.propagated = ~ synchronize_catches(kind)]
    /\ UNCHANGED bands

\* the rest of get_order_book (the balances and the two flags of the
\* returned OrderBook are read after the lock is released), the price and
\* the strategy
SyncComputeWith(faults) ==
    /\ sync.pc = "rest"
    /\ IF ~ BalancesUsable(state[1].balances)
       THEN /\ sync' = [sync EXCEPT !.pc = "idle", !.orders = <<>>,
                                    !.balances = state[1].balances,
                                    !.being_cancelled = has_pending_cancels,
                                    !.outcome = "no_balances"]
            /\ UNCHANGED <<bands, best_bid_cache, best_ask_cache>>
       ELSE /\ best_bid_cache' = IF sync.price = NonePrice
                                 THEN get_best_bid(bids, best_bid_cache)
                                 ELSE best_bid_cache
            /\ best_ask_cache' = IF sync.price = NonePrice
                                 THEN get_best_ask(asks, best_ask_cache)
                                 ELSE best_ask_cache
            /\ \E fault \in faults :
                  IF fault # "none" THEN SyncRaised(fault)
                  ELSE SyncPriced(get_token_prices(sync.price,
                                      IF sync.price = NonePrice
                                      THEN get_mid_price(bids, best_bid_cache,
                                                         asks, best_ask_cache)
                                      ELSE NonePrice),
                                  state[1].balances,
                                  source_price(sync.price,
                                      IF sync.price = NonePrice
                                      THEN get_mid_price(bids, best_bid_cache,
                                                         asks, best_ask_cache)
                                      ELSE NonePrice))
    /\ UNCHANGED <<bids, asks, last_update_time, bootstrapped, listener, mgrVars, pool,
                   ex_orders, next_id, rec, shut, direct, hist>>

SyncCompute == SyncComputeWith({"none"})

\* the same step when the price or the strategy can raise
SyncComputeFaulty == SyncComputeWith(StrategyFaults)

Task(kind, orders) == [kind |-> kind, orders |-> orders, stage |-> "run", result |-> <<>>]

\* one task per order, in the order of the list
TasksFor(kind, orders) == [i \in DOMAIN orders |-> Task(kind, <<orders[i]>>)]

\* a placement that forgets to count its orders
count_placing_forgotten(counter, n) == counter

\* the first locked block of place_order / place_orders
count_placing(counter, n) == counter + n

\* OrderBookManager.cancel_orders / place_orders as called by synchronize:
\* the locked block and the submission of the tasks
SyncDispatch ==
    /\ sync.pc = "dispatch"
    /\ LET plan == DispatchPlan(sync.to_cancel, sync.to_place)
       IN  /\ order_ids_cancelling' = order_ids_cancelling \cup Ids(plan.cancel)
           /\ currently_placing_orders' =
                  count_placing(currently_placing_orders, Len(plan.place))
           /\ pool' = pool \o TasksFor("cancel", plan.cancel)
                           \o TasksFor("place", plan.place)
           /\ sync' = [sync EXCEPT
                          !.pc = "idle",
                          !.outcome = IF plan.cancel # <<>> THEN "cancel" ELSE "place"]
           /\ hist' = IF plan.cancel # <<>>
                      THEN [hist EXCEPT !.cancel_target = sync.target] ELSE hist
    /\ rec' = RecDisturbed
    /\ UNCHANGED <<bands, bookVars, bootstrapped, listener, state, refresh_count,
                   orders_placed, order_ids_cancelled, ex_orders, next_id,
                   shut, direct>>

(***************************************************************************)
(* App.shutdown: OrderBookManager.cancel_all_orders on the main thread     *)
(***************************************************************************)
\* get_order_book().orders
ShutReadOrders ==
    /\ shut.pc = "running"
    /\ state # <<>>
    /\ shut' = [pc |-> "mark", orders |-> get_order_book_orders]
    /\ UNCHANGED <<bands, bookVars, bootstrapped, listener, mgrVars, pool, ex_orders,
                   next_id, sync, rec, direct, hist>>

\* the end of get_order_book (it fails without balances), then the locked
\* block that marks every order and the submission of the single task
ShutMark ==
    /\ shut.pc = "mark"
    /\ IF state[1].balances = <<>> \/ shut.orders = <<>>
       THEN UNCHANGED <<order_ids_cancelling, pool>>
       ELSE /\ order_ids_cancelling' = order_ids_cancelling \cup Ids(shut.orders)
            /\ pool' = Append(pool, Task("cancel_all", shut.orders))
    /\ shut' = [shut EXCEPT !.pc = "done"]
    /\ rec' = RecDisturbed
    /\ UNCHANGED <<bands, bookVars, bootstrapped, listener, state, refresh_count,
                   currently_placing_orders, orders_placed, order_ids_cancelled,
                   ex_orders, next_id, sync, direct, hist>>

(***************************************************************************)
(* The executor.  A submitted task runs once it is among the first         *)
(* max_workers unfinished tasks.                                           *)
(***************************************************************************)
Running(i) == i \in DOMAIN pool /\ i <= max_workers

RemoveAt(s, i) == SubSeq(s, 1, i - 1) \o SubSeq(s, i + 1, Len(s))

\* What the worker runs for a place_orders task: submit(_thread_place_order,
\* place_order_function, order) calls _thread_place_order, which builds the
\* closure and returns it; the result is the number of calls of the
\* injected function.
PlaceTaskBody(order) == 0

\* a worker that runs the closure, calling the injected cancel function
CancelTaskBodyCalling(order) == 1

\* the same for submit(_thread_cancel_order, cancel_order_function, order)
CancelTaskBody(order) == 0

\* the same for submit(_thread_cancel_all_orders,
\* cancel_all_orders_function, orders)
CancelAllTaskBody(orders) == 0

\* func of _thread_cancel_order / _thread_cancel_all_orders: only a call
\* of the injected function that succeeds records the ids as cancelled
CancelledAfterTask(cancelled, ids, calls) ==
    IF calls > 0 THEN cancelled \cup ids ELSE cancelled

\* _on_order_complete: the decrement, floored at zero
on_order_complete(counter) == Max(0, counter - 1)

\* a completion callback that leaves the ids marked
on_cancel_complete_keeping(cancelling, ids) == cancelling

\* _on_cancel_complete / _on_cancel_all_complete: discard the ids
on_cancel_complete(cancelling, ids) == cancelling \ ids

PlaceTaskDone(i) ==
    /\ Running(i)
    /\ pool[i].kind = "place"
    /\ currently_placing_orders' = on_order_complete(currently_placing_orders)
    /\ pool' = RemoveAt(pool, i)
    /\ hist' = [hist EXCEPT
                   !.place_tasks_done = @ + 1,
                   !.place_calls = @ + PlaceTaskBody(pool[i].orders[1])]
    /\ rec' = RecDisturbed
    /\ UNCHANGED <<bands, bookVars, bootstrapped, listener, state, refresh_count,
                   orders_placed, order_ids_cancelling, order_ids_cancelled,
                   ex_orders, next_id, sync, shut, direct>>

\* the done-callback of a cancel task; rec_after is what the history of
\* the refresh iteration keeps of it
CancelTaskDoneAnd(i, rec_after) ==
    /\ Running(i)
    /\ pool[i].kind \in {"cancel", "cancel_all"}
    /\ order_ids_cancelling' =
           on_cancel_complete(order_ids_cancelling, Ids(pool[i].orders))
    /\ order_ids_cancelled' =
           CancelledAfterTask(order_ids_cancelled, Ids(pool[i].orders),
                              IF pool[i].kind = "cancel"
                              THEN CancelTaskBody(pool[i].orders[1])
                              ELSE CancelAllTaskBody(pool[i].orders))
    /\ pool' = RemoveAt(pool, i)
    /\ hist' = [hist EXCEPT
                   !.cancel_tasks_done = IF pool[i].kind = "cancel"
                                         THEN @ \cup Ids(pool[i].orders) ELSE @,
                   !.cancel_calls = IF pool[i].kind = "cancel"
                                       /\ CancelTaskBody(pool[i].orders[1]) > 0
                                    THEN @ \cup Ids(pool[i].orders) ELSE @]
    /\ rec' = rec_after
    /\ UNCHANGED <<bands, bookVars, bootstrapped, listener, state, refresh_count,
                   currently_placing_orders, orders_placed, ex_orders, next_id,
                   sync, shut, direct>>

CancelTaskDone(i) == CancelTaskDoneAnd(i, RecDisturbed)

\* the same, with the ids of the task remembered by the refresh iteration
\* it falls into
CancelTaskDoneInRefresh(i) ==
    CancelTaskDoneAnd(i, RecCancelDone(Ids(pool[i].orders)))

(***************************************************************************)
(* OrderBookManager.place_order: the blocking variant.  It submits the     *)
(* closure built by _thread_place_order, so the worker does call the       *)
(* injected function.                                                      *)
(***************************************************************************)
DirectPlaceCall ==
    /\ direct.pc = "idle"
    /\ direct.n < MaxDirectPlace
    /\ currently_placing_orders' = count_placing(currently_placing_orders, 1)
    /\ pool' = Append(pool, Task("func", <<DirectOrder>>))
    /\ direct' = [direct EXCEPT !.pc = "waiting", !.n = direct.n + 1]
    /\ rec' = RecDisturbed
    /\ UNCHANGED <<bands, bookVars, bootstrapped, listener, state, refresh_count,
                   orders_placed, order_ids_cancelling, order_ids_cancelled,
                   ex_orders, next_id, sync, shut, hist>>

\* OrderBookManager.place_orders called once from another thread than the
\* caller of place_order: the locked block and the submission of the tasks
DirectPlaceOrders ==
    /\ direct.batch = "ready"
    /\ currently_placing_orders' =
           count_placing(currently_placing_orders, Len(DirectBatch))
    /\ pool' = pool \o TasksFor("place", DirectBatch)
    /\ direct' = [direct EXCEPT !.batch = "submitted"]
    /\ rec' = RecDisturbed
    /\ UNCHANGED <<bands, bookVars, bootstrapped, listener, state, refresh_count,
                   orders_placed, order_ids_cancelling, order_ids_cancelled,
                   ex_orders, next_id, sync, shut, hist>>

\* func: new_order = place_order_function(order).  The exchange accepts the
\* order and assigns an id, or rejects it (App.place_order then returns an
\* Order whose id is None, written 0), or the call raises.
FuncCall(i) ==
    /\ Running(i)
    /\ pool[i].kind = "func" /\ pool[i].stage = "run"
    /\ \E outcome \in {"accepted", "rejected", "raised"} :
          LET order == pool[i].orders[1]
              placed == [order EXCEPT !.id = next_id]
          IN  /\ ex_orders' = IF outcome = "accepted"
                              THEN Append(ex_orders, placed) ELSE ex_orders
              /\ next_id' = IF outcome = "accepted" THEN next_id + 1 ELSE next_id
              /\ pool' = [pool EXCEPT
                             ![i].stage = IF outcome = "raised"
                                          THEN "finally" ELSE "append",
                             ![i].result = IF outcome = "accepted" THEN <<placed>>
                                           ELSE IF outcome = "rejected" THEN <<order>>
                                           ELSE <<>>]
    /\ UNCHANGED <<bands, bookVars, bootstrapped, listener, mgrVars, sync, rec, shut, direct,
                   hist>>

\* func: self._orders_placed.append(new_order), under the lock
FuncAppend(i) ==
    /\ Running(i)
    /\ pool[i].kind = "func" /\ pool[i].stage = "append"
    /\ orders_placed' = Append(orders_placed, pool[i].result[1])
    /\ pool' = [pool EXCEPT ![i].stage = "finally"]
    /\ rec' = RecDisturbed
    /\ UNCHANGED <<bands, bookVars, bootstrapped, listener, state, refresh_count,
                   currently_placing_orders, order_ids_cancelling,
                   order_ids_cancelled, ex_orders, next_id, sync, shut, direct,
                   hist>>

\* func: the finally block; wait([result]) then returns to the caller
FuncFinally(i) ==
    /\ Running(i)
    /\ pool[i].kind = "func" /\ pool[i].stage = "finally"
    /\ currently_placing_orders' = currently_placing_orders - 1
    /\ pool' = RemoveAt(pool, i)
    /\ direct' = [direct EXCEPT !.pc = "idle"]
    /\ rec' = RecDisturbed
    /\ UNCHANGED <<bands, bookVars, bootstrapped, listener, state, refresh_count,
                   orders_placed, order_ids_cancelling, order_ids_cancelled,
                   ex_orders, next_id, sync, shut, hist>>

\* an open order is filled at the exchange and leaves its book
ExchangeFill ==
    /\ \E i \in DOMAIN ex_orders : ex_orders' = RemoveAt(ex_orders, i)
    /\ UNCHANGED <<bands, bookVars, bootstrapped, listener, mgrVars, pool, next_id, sync,
                   rec, shut, direct, hist>>

(***************************************************************************)
(* The ShadowBook driven through its own interface: apply_snapshot,        *)
(* apply_delta and get_mid_price on the thread of the listener.            *)
(***************************************************************************)
\* the book messages: the snapshots of the feed and one that lists an
\* emptied and a negative level
BookSnapshots ==
    Snapshots \cup
    {[bids |-> <<[price |-> 480, size |-> 100], [price |-> 490, size |-> 0]>>,
      asks |-> <<[price |-> 510, size |-> 80], [price |-> 520, size |-> 0 - 40]>>]}

Delta(side, price, size, best_bid, best_ask) ==
    [side |-> side, price |-> price, size |-> size, best_bid |-> best_bid,
     best_ask |-> best_ask]

\* the price_change items: well-formed buys and sells with and without the
\* server's best price, an item without side, items whose price or size is
\* absent or not a number, and one whose best_bid is not a number
BookDeltas ==
    {Delta("buy", Num(p), Num(z), bb, MissingField) :
        p \in {480, 490}, z \in {0, 50, 0 - 20}, bb \in {MissingField, Num(490)}}
    \cup {Delta("sell", Num(510), Num(z), MissingField, ba) :
             z \in {0, 80}, ba \in {MissingField, Num(510)}}
    \cup {Delta("missing", Num(500), Num(30), MissingField, MissingField)}
    \cup {Delta("buy", f, Num(50), MissingField, MissingField) :
             f \in {MissingField, TextField}}
    \cup {Delta("buy", Num(490), f, MissingField, MissingField) :
             f \in {MissingField, TextField}}
    \cup {Delta("buy", Num(490), Num(50), TextField, MissingField)}

CurrentBook == Book(bids, asks, best_bid_cache, best_ask_cache, last_update_time)

\* the book variables take the fields of b
SetBook(b) ==
    /\ bids' = b.bids
    /\ asks' = b.asks
    /\ best_bid_cache' = b.best_bid_cache
    /\ best_ask_cache' = b.best_ask_cache
    /\ last_update_time' = b.last_update_time

\* the result r of apply_snapshot becomes the book
SnapshotReturned(r, snapshot) ==
    /\ SetBook(r.book)
    /\ hist' = [hist EXCEPT !.book_call =
                   BookCall("apply_snapshot", NoDelta, FALSE, CurrentBook,
                            r.ret, NonePrice, FALSE),
                            !.snapshot = snapshot]

\* the snapshot that also arrives with a malformed level, in its bids or
\* in its asks
MalformedSnapshots ==
    {[bids |-> <<[price |-> 510, size |-> 50]>>,
      asks |-> <<[price |-> 530, size |-> 40]>>]}

BookApplySnapshot ==
    /\ \E snapshot \in BookSnapshots, fault \in SnapshotFaults :
          /\ fault # "none" => snapshot \in MalformedSnapshots
          /\ SnapshotReturned(snapshot_call(CurrentBook, snapshot, fault), snapshot)
    /\ UNCHANGED <<bands, bootstrapped, listener, mgrVars, pool, ex_orders, next_id, sync,
                   rec, shut, direct>>

\* the result r of apply_delta becomes the book
DeltaReturned(r, delta, sampled) ==
    /\ SetBook(r.book)
    /\ hist' = [hist EXCEPT !.book_call =
                   BookCall("apply_delta", delta, sampled, CurrentBook, r.ret,
                            NonePrice, FALSE)]

BookApplyDelta ==
    /\ \E delta \in BookDeltas, sampled \in BOOLEAN :
          DeltaReturned(apply_delta(CurrentBook, delta, sampled), delta, sampled)
    /\ UNCHANGED <<bands, bootstrapped, listener, mgrVars, pool, ex_orders, next_id, sync,
                   rec, shut, direct>>

\* the call was a buy delta of size 0 at the highest bid of the book
RemovedTopBid(call) ==
    /\ call.op = "apply_delta"
    /\ call.delta.side = "buy"
    /\ call.delta.price.kind = "num"
    /\ call.delta.size = Num(0)
    /\ DOMAIN call.before.bids # {}
    /\ call.delta.price.v = MaxOf(DOMAIN call.before.bids)

\* get_mid_price: the two getters fill their caches
BookGetMidPrice ==
    /\ best_bid_cache' = get_best_bid(bids, best_bid_cache)
    /\ best_ask_cache' = get_best_ask(asks, best_ask_cache)
    /\ hist' = [hist EXCEPT !.book_call =
                   BookCall("get_mid_price", NoDelta, FALSE, CurrentBook, TRUE,
                            get_mid_price(bids, best_bid_cache, asks,
                                          best_ask_cache),
                            RemovedTopBid(hist.book_call))]
    /\ UNCHANGED <<bands, bids, asks, last_update_time, bootstrapped, listener, mgrVars,
                   pool, ex_orders, next_id, sync, rec, shut, direct>>

(***************************************************************************)
(* Spec: the keeper's threads as App starts them: the reconcile worker,    *)
(* the WebSocket worker running synchronize, the executor with one worker, *)
(* and shutdown on the main thread.  StrategyManager reads the ShadowBook  *)
(* the listener feeds, as its constructor's shadow_book parameter says.    *)
(***************************************************************************)
Next ==
    \/ RecBegin
    \/ RecFetch
    \/ RecCommit
    \/ SyncStart
    \/ SyncReadOrders
    \/ SyncCompute
    \/ SyncDispatch
    \/ ShutReadOrders
    \/ ShutMark
    \/ ExchangeFill
    \/ \E i \in DOMAIN pool : PlaceTaskDone(i)
    \/ \E i \in DOMAIN pool : CancelTaskDone(i)

Spec == Init /\ [][Next]_vars

(***************************************************************************)
(* SpecManager: the OrderBookManager driven through its own interface:     *)
(* callers of the blocking place_order, of place_orders and of             *)
(* cancel_all_orders next to the reconcile worker.                         *)
(***************************************************************************)
NextManager ==
    \/ RecBegin
    \/ RecFetch
    \/ RecCommit
    \/ DirectPlaceCall
    \/ DirectPlaceOrders
    \/ ShutReadOrders
    \/ ShutMark
    \/ ExchangeFill
    \/ \E i \in DOMAIN pool : FuncCall(i)
    \/ \E i \in DOMAIN pool : FuncAppend(i)
    \/ \E i \in DOMAIN pool : FuncFinally(i)
    \/ \E i \in DOMAIN pool : PlaceTaskDone(i)
    \/ \E i \in DOMAIN pool : CancelTaskDoneInRefresh(i)

SpecManager == Init /\ [][NextManager]_vars

\* The executor's worker thread keeps taking tasks from its queue, and a
\* task of place_orders / cancel_orders / cancel_all_orders waits for
\* nothing, so a task that can run does run.
TaskStep == \E i \in DOMAIN pool : PlaceTaskDone(i) \/ CancelTaskDone(i)

FairSpec == Spec /\ WF_vars(TaskStep)

(***************************************************************************)
(* SpecGates: the reconcile worker, synchronize and the executor when the  *)
(* environment misbehaves: unusable balances, a one-sided book, a strategy *)
(* step that raises.                                                       *)
(***************************************************************************)
NextGates ==
    \/ RecBegin
    \/ RecFetchUnusable
    \/ RecCommit
    \/ SyncStartOneSided
    \/ SyncReadOrders
    \/ SyncComputeFaulty
    \/ SyncDispatch
    \/ \E i \in DOMAIN pool : PlaceTaskDone(i)
    \/ \E i \in DOMAIN pool : CancelTaskDone(i)

SpecGates == Init /\ [][NextGates]_vars

(***************************************************************************)
(* SpecBook: the ShadowBook alone, fed with snapshots and deltas and asked *)
(* for its mid price.                                                      *)
(***************************************************************************)
NextBook ==
    \/ BookApplySnapshot
    \/ BookApplyDelta
    \/ BookGetMidPrice

SpecBook == Init /\ [][NextBook]_vars

TypeOK ==
    /\ currently_placing_orders >= 0
    /\ sync.pc \in {"idle", "read", "rest", "dispatch"}
    /\ rec.pc \in {"begin", "fetch", "commit", "stopped"}

(***************************************************************************)
(* Properties of StrategyManager.synchronize                               *)
(***************************************************************************)
\* the step of synchronize that calls cancel_orders or place_orders
IsDispatchStep == sync.pc = "dispatch" /\ sync'.pc = "idle"

\* the first step of a call of synchronize
IsSyncCallStep == sync.pc = "idle" /\ sync'.n = sync.n + 1

\* C1: a call of synchronize whose strategy returned a non-empty
\* orders_to_cancel goes on to dispatch, and its dispatch hands exactly that
\* list to cancel_orders (every id marked as cancelling, one cancel task per
\* order) and submits no place task and leaves the placing counter alone,
\* whatever orders_to_place holds.
C1_CancelOnlyTick ==
    [][ /\ (sync.pc = "rest" /\ sync'.pc # "rest" /\ sync'.to_cancel # <<>>)
            => sync'.pc = "dispatch"
        /\ (IsDispatchStep /\ sync.to_cancel # <<>>)
            => /\ order_ids_cancelling' =
                      order_ids_cancelling \cup Ids(sync.to_cancel)
               /\ pool' = pool \o TasksFor("cancel", sync.to_cancel)
               /\ currently_placing_orders' = currently_placing_orders
               /\ sync'.outcome = "cancel" ]_vars

\* a call has just dispatched cancels although the strategy also returned
\* orders to place
C1_Witness ==
    /\ sync.pc = "idle" /\ sync.outcome = "cancel"
    /\ sync.to_cancel # <<>> /\ sync.to_place # <<>>
    /\ Ids(sync.to_cancel) \subseteq order_ids_cancelling

\* C2: a call of synchronize that starts while has_pending_cancels is true
\* returns at once: the strategy is not invoked (the bands are untouched)
\* and nothing is dispatched (no task, no id marked, counter unchanged).
C2_PendingCancelsSkip ==
    [][ (IsSyncCallStep /\ has_pending_cancels)
        => /\ sync'.pc = "idle"
           /\ ~ sync'.strategy
           /\ sync'.to_cancel = <<>> /\ sync'.to_place = <<>>
           /\ UNCHANGED <<bands, pool, order_ids_cancelling,
                          currently_placing_orders>> ]_vars

\* a call has just returned at the pending-cancel check of a bootstrapped
\* keeper
C2_Witness ==
    /\ sync.pc = "idle" /\ sync.outcome = "pending" /\ sync.pending
    /\ bootstrapped /\ has_pending_cancels

\* C3: whatever the interleaving of synchronize, the cancel tasks and
\* App.shutdown's cancel_all_orders, place_orders is never dispatched while
\* order_ids_cancelling is non-empty.
C3_NoPlaceWhileCancelling ==
    [][ (IsDispatchStep /\ currently_placing_orders' > currently_placing_orders)
        => order_ids_cancelling = {} ]_vars

\* no cancel task is queued or running and no id is marked as cancelling
NoCancelInFlight ==
    /\ order_ids_cancelling = {}
    /\ \A i \in DOMAIN pool : pool[i].kind \notin {"cancel", "cancel_all"}

\* C4: after a call that dispatched cancels, a call made while a cancel is
\* in flight dispatches nothing, and a call that dispatches after every
\* cancel task has completed, at the target price of the cancelling call,
\* dispatches the placements and does not cancel the same orders again.
C4_PlaceAfterCancels ==
    [][ /\ (IsSyncCallStep /\ has_pending_cancels /\ hist.cancel_target # NonePrice)
            => /\ sync'.pc = "idle"
               /\ UNCHANGED <<pool, order_ids_cancelling,
                              currently_placing_orders>>
        /\ (IsDispatchStep /\ hist.cancel_tasks_done # {} /\ NoCancelInFlight
                /\ sync.target = hist.cancel_target)
            => /\ Ids(sync.to_cancel) \cap hist.cancel_tasks_done = {}
               /\ sync'.outcome = "place" ]_vars

(***************************************************************************)
(* Properties of the OrderBookManager tasks                                *)
(***************************************************************************)
\* C5: every place_orders task that has finished invoked the injected
\* place function exactly once (so that the order it returned, which has an
\* id, can be added to the orders get_order_book returns).
C5_PlaceTaskInvokesPlaceFunction ==
    hist.place_calls = hist.place_tasks_done

\* C6: every cancel_orders task that has finished invoked the injected
\* cancel function for its order (so that a cancelled order can leave the
\* orders get_order_book returns).
C6_CancelTaskInvokesCancelFunction ==
    hist.cancel_tasks_done \subseteq hist.cancel_calls

\* the ids cancel_orders and cancel_all_orders can be given by the keeper:
\* the place_orders tasks add no order, so the strategy and shutdown only
\* ever see the orders that rest on the exchange at the start
KeeperIds == Ids(<<RestingOrder>>)

\* C7: every id marked in order_ids_cancelling by cancel_orders or
\* cancel_all_orders is removed again once its task has finished, and, the
\* dispatches of a behaviour being finitely many, has_pending_cancels ends
\* up false and stays false.
C7_CancellingIdsCleared ==
    /\ \A id \in KeeperIds :
           (id \in order_ids_cancelling) ~> (id \notin order_ids_cancelling)
    /\ <>[](~ has_pending_cancels)

\* a cancel task has finished and left no id marked
C7_Witness ==
    /\ hist.cancel_tasks_done # {}
    /\ order_ids_cancelling = {}
    /\ pool = <<>>

(***************************************************************************)
(* Properties of get_order_book and of the reconcile loop                  *)
(***************************************************************************)
\* C8: the orders get_order_book returns never include an order whose id
\* is in order_ids_cancelling, also after a reconcile iteration stored a
\* fetched list that still holds such an order.
C8_BookExcludesCancelling ==
    Ids(get_order_book_orders) \cap order_ids_cancelling = {}

\* a reconcile iteration has stored a list holding an order whose
\* cancellation was in flight, and the id is still marked
C8_Witness ==
    /\ rec.fired /\ rec.in_flight # {}
    /\ rec.in_flight \subseteq order_ids_cancelling
    /\ state # <<>> /\ state[1].orders # <<>>
    /\ rec.in_flight \subseteq Ids(state[1].orders[1])

\* the second locked block of a reconcile iteration and what follows it
IsCommitStep == rec.pc = "commit" /\ rec'.pc # "commit"

C10_BookKeptOnOrdersFailure ==
    [][ (IsCommitStep /\ rec.orders = <<>> /\ rec.quiet)
        => Range(BookOrders(state', orders_placed', order_ids_cancelling',
                            order_ids_cancelled'))
           = Range(rec.book_before) ]_vars


IsSyncFailStep ==
    /\ sync.pc = "rest"
    /\ sync'.outcome \in {"raised", "no_balances"}

C11_ReconcileLoopSurvivesFailure ==
    [][(IsCommitStep /\ (rec.orders = <<>> \/ rec.balances = <<>>))
          => rec'.pc = "begin"]_vars

\* C12: the OrderBook returned by get_order_book is one state of the
\* manager: when its orders list left an order out because the order's id
\* was in order_ids_cancelling, its orders_being_cancelled flag is true.
C12_SnapshotAtomic ==
    (sync.pc \in {"idle", "dispatch"} /\ sync.left_out # {})
        => sync.being_cancelled

\* the ids of the orders the manager holds: the list of the last
\* successful fetch and the orders placed since
ManagerOrderIds(st, placed) ==
    (IF st = <<>> \/ st[1].orders = <<>> THEN {} ELSE Ids(st[1].orders[1]))
        \cup Ids(placed)

C14_PlacingCounterNonNegative == currently_placing_orders >= 0

\* a placement of place_order and one of place_orders have both been
\* counted and both completed, and the counter is back at zero
C14_Witness ==
    /\ direct.n > 0 /\ direct.batch = "submitted"
    /\ direct.pc = "idle"
    /\ hist.place_tasks_done = Len(DirectBatch)
    /\ currently_placing_orders = 0

\* C15: every order in the list get_order_book returns carries an id the
\* exchange assigned (id None is written 0): a rejected or failed placement
\* adds nothing to the local orders.
C15_ReturnedOrdersHaveIds ==
    \A i \in DOMAIN get_order_book_orders : get_order_book_orders[i].id # 0

(***************************************************************************)
(* Properties of the ShadowBook                                            *)
(***************************************************************************)
\* C18: after any sequence of apply_snapshot and apply_delta calls every
\* level stored in bids and asks has a size above zero.
C18_LevelsPositive ==
    /\ \A p \in DOMAIN bids : bids[p] > 0
    /\ \A p \in DOMAIN asks : asks[p] > 0

\* C19: get_mid_price returns none exactly when bids or asks is empty, and
\* otherwise half the sum of the highest bid and the lowest ask of the
\* current levels, also right after a size-0 delta removed the top bid.
C19_MidPriceOverCurrentLevels ==
    hist.book_call.op = "get_mid_price"
        => hist.book_call.mid =
              (IF DOMAIN bids = {} \/ DOMAIN asks = {} THEN NonePrice
               ELSE (MaxOf(DOMAIN bids) + MinOf(DOMAIN asks)) \div 2)

\* get_mid_price has returned a mid right after a size-0 delta removed the
\* top bid, which the best-bid cache held
C19_Witness ==
    /\ hist.book_call.op = "get_mid_price"
    /\ hist.book_call.top_bid_removed
    /\ hist.book_call.mid # NonePrice
    /\ hist.book_call.mid = (MaxOf(DOMAIN bids) + MinOf(DOMAIN asks)) \div 2
    /\ best_bid_cache = MaxOf(DOMAIN bids)

\* C20: for a delta whose side, price or size is missing or not a number
\* where one is needed, apply_delta returns False (the desync signal) and
\* leaves bids, asks and both best-price caches as they were.
C20_MalformedDeltaRejected ==
    (/\ hist.book_call.op = "apply_delta"
     /\ \/ hist.book_call.delta.side = "missing"
        \/ hist.book_call.delta.price.kind # "num"
        \/ hist.book_call.delta.size.kind # "num")
        => /\ ~ hist.book_call.ret
           /\ bids = hist.book_call.before.bids
           /\ asks = hist.book_call.before.asks
           /\ best_bid_cache = hist.book_call.before.best_bid_cache
           /\ best_ask_cache = hist.book_call.before.best_ask_cache


\* the step is a call of apply_snapshot
IsSnapshotStep == hist'.book_call # hist.book_call /\ hist'.book_call.op = "apply_snapshot"

\* C22: after any call of apply_snapshot, one that fails on a malformed
\* level included, either both sides hold exactly the positive-size levels
\* of the snapshot or both sides are what they were before the call.
C22_SnapshotAtomic ==
    [][IsSnapshotStep =>
          \/ /\ bids' = BookSide(hist'.snapshot.bids)
             /\ asks' = BookSide(hist'.snapshot.asks)
          \/ /\ bids' = bids
             /\ asks' = asks]_vars

\* the best prices the two getters return on the book b
BestPrices(b) ==
    <<get_best_bid(b.bids, b.best_bid_cache), get_best_ask(b.asks, b.best_ask_cache)>>

\* the step applies, without failing, the snapshot that the call before it
\* applied without failing
IsRepeatedSnapshotStep ==
    /\ IsSnapshotStep
    /\ hist'.book_call.ret
    /\ hist.book_call.op = "apply_snapshot"
    /\ hist.book_call.ret
    /\ hist'.snapshot = hist.snapshot

\* C23: applying the same snapshot a second time in a row leaves the bids,
\* the asks and the results of get_best_bid and get_best_ask as the first
\* application left them, whatever the book held before the first one.
C23_SnapshotIdempotent ==
    [][IsRepeatedSnapshotStep =>
          /\ bids' = bids
          /\ asks' = asks
          /\ BestPrices(CurrentBook') = BestPrices(CurrentBook)]_vars

\* a snapshot with levels was applied twice in a row to a book that held
\* other levels before the first application
C23_Witness ==
    /\ hist.book_call.op = "apply_snapshot"
    /\ hist.book_call.ret
    /\ hist.book_call.before.bids = BookSide(hist.snapshot.bids)
    /\ hist.book_call.before.asks = BookSide(hist.snapshot.asks)
    /\ hist.book_call.before.last_update_time = 1
    /\ bids = BookSide(hist.snapshot.bids)
    /\ DOMAIN bids # {}
    /\ DOMAIN asks # {}


(***************************************************************************)
(* The PriceListener: the loop of _listen on its own thread, the messages  *)
(* it hands to _handle_message, and the debounce of the callback.          *)
(***************************************************************************)
\* the clock ticks of one run
MaxTicks == 3

MaxClock == StartClock + MaxTicks

\* the messages one run handles
MaxEvents == 3

\* one item of price_changes: whether its asset_id is the listener's, the
\* delta, and the outcome of the sampling inside apply_delta
Change(mine, delta, sampled) == [mine |-> mine, delta |-> delta, sampled |-> sampled]

\* a WebSocket message: its event_type ("unparsable" for a text json.loads
\* rejects), whether market and asset_id are the listener's, the snapshot
\* of a book event with the list holding a malformed level, the
\* price_changes of a price_change event (is_list: the key holds a list)
Message(event_type, relevant, snapshot, fault, is_list, changes) ==
    [event_type |-> event_type, relevant |-> relevant, snapshot |-> snapshot,
     fault |-> fault, is_list |-> is_list, changes |-> changes]

GoodChange == Change(TRUE, Delta("buy", Num(490), Num(50), MissingField, MissingField), FALSE)

\* the server's best bid is 0.51, the book's is lower: sampled, the call
\* returns the desync signal
DesyncChange == Change(TRUE, Delta("buy", Num(480), Num(50), Num(510), MissingField), TRUE)

MalformedChange == Change(TRUE, Delta("buy", TextField, Num(50), MissingField, MissingField), FALSE)

ForeignChange == Change(FALSE, Delta("buy", Num(470), Num(50), MissingField, MissingField), FALSE)

ListenerMessages ==
    {Message("book", TRUE, snapshot, fault, FALSE, <<>>) :
        snapshot \in Snapshots, fault \in {"none", "asks"}}
    \cup {Message("book", FALSE, NoSnapshot, "none", FALSE, <<>>)}
    \cup {Message("price_change", TRUE, NoSnapshot, "none", TRUE, changes) :
             changes \in {<<GoodChange>>, <<DesyncChange>>, <<MalformedChange>>,
                          <<ForeignChange>>, <<DesyncChange, GoodChange>>}}
    \cup {Message("price_change", TRUE, NoSnapshot, "none", FALSE, <<>>)}
    \cup {Message("last_trade_price", TRUE, NoSnapshot, "none", FALSE, <<>>)}
    \cup {Message("unparsable", FALSE, NoSnapshot, "none", FALSE, <<>>)}

\* the loop over price_changes: apply_delta on the items of the listener's
\* asset, its return value dropped; desync records that a call returned False
RECURSIVE apply_changes(_, _, _)
apply_changes(b, changes, desync) ==
    IF changes = <<>> THEN [book |-> b, desync |-> desync]
    ELSE IF Head(changes).mine
    THEN apply_changes(apply_delta(b, Head(changes).delta, Head(changes).sampled).book,
                       Tail(changes),
                       desync \/ ~ apply_delta(b, Head(changes).delta, Head(changes).sampled).ret)
    ELSE apply_changes(b, Tail(changes), desync)

\* the outcome of _handle_single_message before the debounce: the book,
\* whether _try_trigger_strategy is reached, whether a delta reported a
\* desync, whether the handler raised
Outcome(b, tried, desync, raised) ==
    [book |-> b, tried |-> tried, desync |-> desync, raised |-> raised]

\* the price_change branch
handle_price_change(b, r) == Outcome(r.book, TRUE, r.desync, FALSE)

\* the book branch on a matching market and asset
handle_book(b, r) == Outcome(r.book, r.ret, FALSE, ~ r.ret)

\* json.loads and _handle_single_message
handle_single_message(b, m) ==
    IF m.event_type = "unparsable" THEN Outcome(b, FALSE, FALSE, TRUE)
    ELSE IF m.event_type = "book" /\ m.relevant
    THEN handle_book(b, snapshot_call(b, m.snapshot, m.fault))
    ELSE IF m.event_type = "price_change" /\ m.is_list
    THEN handle_price_change(b, apply_changes(b, m.changes, FALSE))
    ELSE Outcome(b, FALSE, FALSE, FALSE)

\* a debounce that does not record the time of the trigger
try_trigger_strategy_forgetting(now, last_trigger_time) ==
    [fire |-> (now - last_trigger_time) >= debounce_ms,
     last_trigger_time |-> last_trigger_time]

\* _try_trigger_strategy: whether the callback runs, and last_trigger_time
\* afterwards
try_trigger_strategy(now, last_trigger_time) ==
    [fire |-> (now - last_trigger_time) >= debounce_ms,
     last_trigger_time |-> IF (now - last_trigger_time) >= debounce_ms
                           THEN now ELSE last_trigger_time]

\* start(): the flag is set and the thread enters _listen
ListenerStart ==
    /\ listener.pc = "new"
    /\ listener' = [listener EXCEPT !.pc = "connect", !.running = TRUE]
    /\ UNCHANGED <<bands, bookVars, bootstrapped, mgrVars, pool, ex_orders,
                   next_id, sync, rec, shut, direct, hist>>

\* stop(): the flag is cleared
ListenerStop ==
    /\ listener.pc # "new"
    /\ listener.running
    /\ listener' = [listener EXCEPT !.running = FALSE]
    /\ UNCHANGED <<bands, bookVars, bootstrapped, mgrVars, pool, ex_orders,
                   next_id, sync, rec, shut, direct, hist>>

\* the head of the while loop and websockets.connect: the loop ends when
\* the flag is clear; a refused connection raises into the handler that
\* sleeps
ListenerConnect ==
    /\ listener.pc = "connect"
    /\ \/ /\ ~ listener.running
          /\ listener' = [listener EXCEPT !.pc = "stopped"]
       \/ /\ listener.running
          /\ \E pc \in {"subscribe", "backoff"} :
                listener' = [listener EXCEPT !.pc = pc]
    /\ UNCHANGED <<bands, bookVars, bootstrapped, mgrVars, pool, ex_orders,
                   next_id, sync, rec, shut, direct, hist>>

\* ws.send of the subscription message; a send on a broken connection
\* raises
ListenerSubscribe ==
    /\ listener.pc = "subscribe"
    /\ \/ listener' = [listener EXCEPT !.pc = "reading", !.subscribed = TRUE]
       \/ listener' = [listener EXCEPT !.pc = "backoff"]
    /\ UNCHANGED <<bands, bookVars, bootstrapped, mgrVars, pool, ex_orders,
                   next_id, sync, rec, shut, direct, hist>>

\* the listener after a handled message with outcome r and debounce result t
ListenerAfter(r, t, kind) ==
    [listener EXCEPT
        !.pc = IF r.raised THEN "backoff" ELSE "reading",
        !.subscribed = ~ r.raised,
        !.handled = listener.handled + 1,
        !.last_trigger_time = IF r.tried THEN t.last_trigger_time
                              ELSE listener.last_trigger_time,
        !.events = IF r.tried
                   THEN Append(listener.events, [t |-> listener.now, fired |-> t.fire])
                   ELSE listener.events,
        !.last = Handled(kind, r.tried, r.tried /\ t.fire, r.desync, r.raised)]

\* the message was handled with outcome r
MessageHandled(r, kind) ==
    /\ SetBook(r.book)
    /\ listener' = ListenerAfter(r, try_trigger_strategy(listener.now, listener.last_trigger_time), kind)

\* one message of the async for: with the flag clear the loop is left and
\* the while loop ends; else the message is parsed and handled, and what
\* the handler raises ends the connection in the handler that sleeps
ListenerMessage ==
    /\ listener.pc = "reading"
    /\ listener.handled < MaxEvents
    /\ \/ /\ ~ listener.running
          /\ listener' = [listener EXCEPT !.pc = "stopped", !.subscribed = FALSE]
          /\ UNCHANGED bookVars
       \/ /\ listener.running
          /\ \E m \in ListenerMessages :
                MessageHandled(handle_single_message(CurrentBook, m), m.event_type)
    /\ UNCHANGED <<bands, bootstrapped, mgrVars, pool, ex_orders,
                   next_id, sync, rec, shut, direct, hist>>

\* a clean close that ends the loop
ListenerClosedOKStopping ==
    /\ listener.pc = "reading"
    /\ listener' = [listener EXCEPT !.pc = "stopped", !.subscribed = FALSE]
    /\ UNCHANGED <<bands, bookVars, bootstrapped, mgrVars, pool, ex_orders,
                   next_id, sync, rec, shut, direct, hist>>

\* the server closes the connection cleanly: the loop goes round at once
ListenerClosedOK ==
    /\ listener.pc = "reading"
    /\ listener' = [listener EXCEPT !.pc = "connect", !.subscribed = FALSE]
    /\ UNCHANGED <<bands, bookVars, bootstrapped, mgrVars, pool, ex_orders,
                   next_id, sync, rec, shut, direct, hist>>

\* the connection fails while reading
ListenerConnectionError ==
    /\ listener.pc = "reading"
    /\ listener' = [listener EXCEPT !.pc = "backoff", !.subscribed = FALSE]
    /\ UNCHANGED <<bands, bookVars, bootstrapped, mgrVars, pool, ex_orders,
                   next_id, sync, rec, shut, direct, hist>>

\* asyncio.sleep(5) of the handler is over
ListenerBackoffDone ==
    /\ listener.pc = "backoff"
    /\ listener' = [listener EXCEPT !.pc = "connect"]
    /\ UNCHANGED <<bands, bookVars, bootstrapped, mgrVars, pool, ex_orders,
                   next_id, sync, rec, shut, direct, hist>>

\* the clock advances
ListenerTick ==
    /\ listener.now < MaxClock
    /\ listener' = [listener EXCEPT !.now = listener.now + 1]
    /\ UNCHANGED <<bands, bookVars, bootstrapped, mgrVars, pool, ex_orders,
                   next_id, sync, rec, shut, direct, hist>>

NextListener ==
    \/ ListenerStart
    \/ ListenerStop
    \/ ListenerConnect
    \/ ListenerSubscribe
    \/ ListenerMessage
    \/ ListenerClosedOK
    \/ ListenerConnectionError
    \/ ListenerBackoffDone
    \/ ListenerTick

SpecListener == Init /\ [][NextListener]_vars

\* websockets.connect returned a connection
ListenerConnected == ListenerConnect /\ listener'.pc = "subscribe"

\* the subscription message went out
ListenerSubscribed == ListenerSubscribe /\ listener'.pc = "reading"

\* the thread of _listen keeps running: the loop head and the sleep of the
\* handler are taken when due; the server is reachable again and again, so
\* a connection and the send of the subscription succeed in the end
FairListener ==
    /\ SpecListener
    /\ WF_vars(ListenerConnect)
    /\ WF_vars(ListenerBackoffDone)
    /\ SF_vars(ListenerConnected)
    /\ SF_vars(ListenerSubscribed)


(***************************************************************************)
(* Properties of the PriceListener                                         *)
(***************************************************************************)
\* the step handles one message of the connection
IsMessageStep == listener'.handled = listener.handled + 1

\* C21: whenever an apply_delta call of a handled price_change message
\* returns the desync signal, the listener leaves the reading loop of the
\* connection, to subscribe again and receive a fresh snapshot.
C21_DesyncTriggersResync ==
    [][(IsMessageStep /\ listener'.last.desync) =>
          (listener'.pc # "reading" \/ ~ listener'.subscribed)]_vars


\* the events i..j of the run arrive within one debounce
IsBurst(i, j) ==
    /\ i \in DOMAIN listener.events
    /\ j \in DOMAIN listener.events
    /\ i <= j
    /\ listener.events[j].t - listener.events[i].t < debounce_ms

\* the events among i..j that invoked the callback
Invocations(i, j) == {k \in i..j : listener.events[k].fired}

\* any two invocations of the callback are at least debounce_ms apart
InvocationsSpaced ==
    \A i, j \in DOMAIN listener.events :
        (i < j /\ listener.events[i].fired /\ listener.events[j].fired)
            => listener.events[j].t - listener.events[i].t >= debounce_ms

\* an invocation lies less than debounce_ms before the event i
RecentInvocation(i) ==
    \E k \in 1..(i - 1) :
        /\ listener.events[k].fired
        /\ listener.events[i].t - listener.events[k].t < debounce_ms

Disconnected == listener.pc \in {"connect", "backoff"}

band_is_valid(band) ==
    /\ band.min_amount >= 0
    /\ band.avg_amount >= 0
    /\ band.max_amount >= 0
    /\ band.min_amount <= band.avg_amount
    /\ band.avg_amount <= band.max_amount
    /\ band.min_margin <= band.avg_margin
    /\ band.avg_margin <= band.max_margin
    /\ band.min_margin < band.max_margin

two_bands_overlap(band1, band2) ==
    band1.min_margin < band2.max_margin /\ band2.min_margin < band1.max_margin

\* an overlap test that looks at neighbours in the list only
bands_overlap_adjacent_only(bs) ==
    \E i \in DOMAIN bs :
        i + 1 \in DOMAIN bs /\ two_bands_overlap(bs[i], bs[i + 1])

\* Bands._bands_overlap: some band overlaps more than one band of the
\* list, itself included
bands_overlap(bs) ==
    \E i \in DOMAIN bs :
        Cardinality({j \in DOMAIN bs : two_bands_overlap(bs[i], bs[j])}) > 1

\* the bands the constructor builds: a configuration with a band that
\* Band.__init__ rejects is treated as having no bands
built_bands(config) ==
    IF \A i \in DOMAIN config : band_is_valid(config[i]) THEN config ELSE <<>>

\* Bands.__init__: the bands of the instance, or the exception
Bands_init(config) ==
    [bands |-> built_bands(config), raised |-> bands_overlap(built_bands(config))]

MakeBand(min_margin, avg_margin, max_margin) ==
    [min_margin |-> min_margin, avg_margin |-> avg_margin, max_margin |-> max_margin,
     min_amount |-> 5000, avg_amount |-> 10000, max_amount |-> 20000]

\* a band whose min_amount exceeds its avg_amount
InvalidBand == [MakeBand(50, 60, 70) EXCEPT !.min_amount = 15000]

\* the configurations: the configured band, two adjacent bands, two
\* overlapping bands, a band within another, two overlapping bands with a
\* band between them, two overlapping bands next to a band
\* Band.__init__ rejects, a band whose margins are not whole ticks, and a
\* band whose avg_margin is its min_margin, three adjacent bands
BandConfigs ==
    {ConfiguredBands,
     <<MakeBand(12, 30, 40)>>,
     <<MakeBand(10, 10, 30)>>,
     <<MakeBand(10, 20, 30), MakeBand(30, 40, 50)>>,
     <<MakeBand(10, 20, 30), MakeBand(30, 40, 50), MakeBand(50, 60, 70)>>,
     <<MakeBand(10, 20, 30), MakeBand(20, 30, 40)>>,
     <<MakeBand(10, 30, 50), MakeBand(20, 30, 40)>>,
     <<MakeBand(10, 20, 30), MakeBand(50, 60, 70), MakeBand(20, 30, 40)>>,
     <<MakeBand(10, 20, 30), MakeBand(20, 30, 40), InvalidBand>>}

\* the order lists handed to get_orders; the size of an open order is
\* original_size - size_matched (clob_api.py), so a partly filled order
\* can have a size that is no multiple of 0.01
StrategyOrders ==
    {<<>>,
     <<[id |-> 1, side |-> "BUY", token |-> "A", price |-> 480, size |-> 6000]>>,
     <<[id |-> 1, side |-> "BUY", token |-> "A", price |-> 480, size |-> 6000],
       [id |-> 2, side |-> "SELL", token |-> "A", price |-> 520, size |-> 15000],
       [id |-> 3, side |-> "BUY", token |-> "B", price |-> 400, size |-> 2000]>>,
     <<[id |-> 1, side |-> "BUY", token |-> "A", price |-> 460, size |-> 15000],
       [id |-> 2, side |-> "BUY", token |-> "A", price |-> 460, size |-> 8000]>>,
     <<[id |-> 1, side |-> "BUY", token |-> "A", price |-> 480, size |-> 6000],
       [id |-> 2, side |-> "BUY", token |-> "A", price |-> 470, size |-> 3000]>>,
     <<[id |-> 1, side |-> "BUY", token |-> "A", price |-> 480, size |-> 3004]>>}

\* the balances: 5 of collateral and no tokens, 20 of each, 0.4 and half a token
StrategyBalances ==
    {[Collateral |-> 5000000, A |-> 0, B |-> 0],
     [Collateral |-> 20000000, A |-> 20000, B |-> 20000],
     [Collateral |-> 400000, A |-> 500, B |-> 500]}

\* the target prices of token A; token B has the complement
StrategyTargets == {20, 500}

TargetPrices(price_a) == [A |-> price_a, B |-> PriceUnit - price_a]

\* the collateral the BUY orders of the list need, and the size the SELL
\* orders of a token lock
BuyCollateral(orders) ==
    LET IsBuy(order) == order.side = "BUY"
        buys == SelectSeq(orders, IsBuy)
    IN  SumSeq([i \in DOMAIN buys |-> buys[i].size * buys[i].price])

SellSize(orders, token) ==
    LET IsSellOf(order) == order.side = "SELL" /\ order.token = token
        sells == SelectSeq(orders, IsSellOf)
    IN  SumSeq([i \in DOMAIN sells |-> sells[i].size])

\* the balances cover what the open orders lock: the exchange accepts an
\* order only against the balance it locks
BalancesCover(orders, balances) ==
    /\ BuyCollateral(orders) <= balances.Collateral
    /\ \A token \in {"A", "B"} : SellSize(orders, token) <= balances[token]

\* the constructor of the strategy: before any other call
StrategyConstruct ==
    /\ hist.strategy_call.op \in {"none", "construct"}
    /\ \E config \in BandConfigs :
          /\ bands' = IF Bands_init(config).raised THEN bands
                      ELSE Bands_init(config).bands
          /\ hist' = [hist EXCEPT !.strategy_call =
                         StrategyCall("construct", config, <<>>, NoBalances,
                                      NoTargetPrices, bands,
                                      Bands_init(config).raised, <<>>, <<>>)]
    /\ UNCHANGED <<bookVars, bootstrapped, listener, mgrVars, pool, ex_orders,
                   next_id, sync, rec, shut, direct>>

\* the call c of get_orders returned r: the first call of the run is kept
GetOrdersReturned(r, c) ==
    /\ bands' = r.bands
    /\ hist' = [hist EXCEPT
                   !.strategy_call = [c EXCEPT !.orders_to_cancel = r.orders_to_cancel,
                                               !.orders_to_place = r.orders_to_place],
                   !.first_call = IF hist.first_call.op = "none"
                                  THEN [c EXCEPT !.orders_to_cancel = r.orders_to_cancel,
                                                 !.orders_to_place = r.orders_to_place]
                                  ELSE hist.first_call]

\* get_orders on the arguments of the call c
GetOrdersCalled(c) ==
    GetOrdersReturned(get_orders(bands, tradable_tokens, vanilla_mode, c.orders,
                                 c.balances, c.target_prices), c)

StrategyGetOrders ==
    /\ \E orders \in StrategyOrders, balances \in StrategyBalances, price_a \in StrategyTargets :
          /\ BalancesCover(orders, balances)
          /\ GetOrdersCalled(StrategyCall("get_orders", <<>>, orders, balances,
                                          TargetPrices(price_a), bands, FALSE, <<>>, <<>>))
    /\ UNCHANGED <<bookVars, bootstrapped, listener, mgrVars, pool, ex_orders,
                   next_id, sync, rec, shut, direct>>

\* the assertions at the head of cancellable_orders: orders is a list and
\* target_price is a float
cancellable_orders_asserts(orders, target_price) == target_price # NonePrice

\* Bands.cancellable_orders, called with a target price or with None
StrategyCancellableOrders ==
    /\ \E orders \in StrategyOrders, target_price \in StrategyTargets \cup {NonePrice} :
          /\ bands' = IF cancellable_orders_asserts(orders, target_price)
                      THEN cancellable_orders(bands, orders, target_price, vanilla_mode).bands
                      ELSE bands
          /\ hist' = [hist EXCEPT !.strategy_call =
                         StrategyCall("cancellable_orders", <<>>, orders, NoBalances,
                                      [A |-> target_price, B |-> NonePrice], bands,
                                      ~ cancellable_orders_asserts(orders, target_price),
                                      IF cancellable_orders_asserts(orders, target_price)
                                      THEN cancellable_orders(bands, orders, target_price, vanilla_mode).cancel
                                      ELSE <<>>,
                                      <<>>)]
    /\ UNCHANGED <<bookVars, bootstrapped, listener, mgrVars, pool, ex_orders,
                   next_id, sync, rec, shut, direct>>

\* the emitted orders as open orders: the exchange gives them ids, here
\* above the ids of the orders already open
RECURSIVE WithIds(_, _)
WithIds(orders, first_id) ==
    IF orders = <<>> THEN <<>>
    ELSE <<[Head(orders) EXCEPT !.id = first_id]>> \o WithIds(Tail(orders), first_id + 1)

EmittedIdBase == 11

\* the open orders after the call: those it did not cancel and those it
\* emitted
OrdersAfterCall(call) ==
    LET Stays(order) == order \notin Range(call.orders_to_cancel)
    IN  SelectSeq(call.orders, Stays) \o WithIds(call.orders_to_place, EmittedIdBase)

\* the next tick at a steady price: get_orders with the target prices and
\* balances of the call before and with its emitted orders open
StrategyGetOrdersAgain ==
    /\ hist.strategy_call.op = "get_orders"
    /\ hist.strategy_call.orders_to_place # <<>>
    /\ GetOrdersCalled(StrategyCall("get_orders_again", <<>>,
                                    OrdersAfterCall(hist.strategy_call),
                                    hist.strategy_call.balances,
                                    hist.strategy_call.target_prices, bands,
                                    FALSE, <<>>, <<>>))
    /\ UNCHANGED <<bookVars, bootstrapped, listener, mgrVars, pool, ex_orders,
                   next_id, sync, rec, shut, direct>>

NextBands ==
    \/ StrategyConstruct
    \/ StrategyGetOrders
    \/ StrategyGetOrdersAgain
    \/ StrategyCancellableOrders

SpecBands == Init /\ [][NextBands]_vars


(***************************************************************************)
(* Properties of the bands strategy                                        *)
(***************************************************************************)
\* the step is a call of get_orders
IsGetOrdersStep ==
    hist'.strategy_call # hist.strategy_call /\ hist'.strategy_call.op = "get_orders"

\* the two calls of get_orders have the same arguments
SameArguments(c1, c2) ==
    /\ c1.op = "get_orders"
    /\ c2.op = "get_orders"
    /\ c1.orders = c2.orders
    /\ c1.balances = c2.balances
    /\ c1.target_prices = c2.target_prices

\* C26: a get_orders call returns what the first call of the run with the
\* same orders, balances and target prices returned, whatever calls were
\* made in between, and no get_orders call changes the configured bands.
C26_StrategyPure ==
    /\ [](SameArguments(hist.strategy_call, hist.first_call) =>
             /\ hist.strategy_call.orders_to_cancel = hist.first_call.orders_to_cancel
             /\ hist.strategy_call.orders_to_place = hist.first_call.orders_to_place)
    /\ [][IsGetOrdersStep => bands' = bands]_vars


\* C27: every order in the orders_to_place that get_orders returns has a
\* price above 0 and below 1 and a size of at least MIN_SIZE.
C27_PlacedOrdersValid ==
    hist.strategy_call.op = "get_orders" =>
        \A i \in DOMAIN hist.strategy_call.orders_to_place :
            /\ hist.strategy_call.orders_to_place[i].price > 0
            /\ hist.strategy_call.orders_to_place[i].price < PriceUnit
            /\ hist.strategy_call.orders_to_place[i].size >= MIN_SIZE

\* get_orders returned a buy and no sell for a band it met under-filled
\* with half a token to sell: the sell candidate was below MIN_SIZE
C27_Witness ==
    /\ hist.strategy_call.op = "get_orders"
    /\ hist.strategy_call.orders = <<>>
    /\ hist.strategy_call.balances.B = 500
    /\ hist.strategy_call.orders_to_place # <<>>
    /\ \A i \in DOMAIN hist.strategy_call.orders_to_place :
          hist.strategy_call.orders_to_place[i].side = "BUY"


\* the orders of the book that the call does not cancel
RemainingOrders(call) ==
    LET Stays(order) == order \notin Range(call.orders_to_cancel)
    IN  SelectSeq(call.orders, Stays)

\* C28: in one get_orders call the collateral needed by the emitted BUY
\* orders is at most the collateral balance less the collateral locked by
\* all remaining open BUY orders, and the emitted SELL sizes of a token are
\* at most its balance less the size locked by its open SELL orders.
C28_PlacedWithinBalances ==
    hist.strategy_call.op = "get_orders" =>
        /\ BuyCollateral(hist.strategy_call.orders_to_place)
               <= hist.strategy_call.balances.Collateral
                  - BuyCollateral(RemainingOrders(hist.strategy_call))
        /\ \A token \in {"A", "B"} :
              SellSize(hist.strategy_call.orders_to_place, token)
                  <= hist.strategy_call.balances[token]
                     - SellSize(hist.strategy_call.orders, token)


\* two different bands of the list overlap
HoldsOverlap(bs) ==
    \E i, j \in DOMAIN bs : i # j /\ two_bands_overlap(bs[i], bs[j])

\* C29 as stated: constructing Bands from a configuration in which two
\* bands overlap fails, and no Bands instance holds two overlapping bands.
C29_OverlapRejected ==
    /\ hist.strategy_call.op = "construct" /\ HoldsOverlap(hist.strategy_call.config)
           => hist.strategy_call.raised
    /\ ~ HoldsOverlap(bands)

\* C29, amended: constructing Bands from a configuration of valid bands in
\* which two bands overlap fails; a configuration with a band that
\* Band.__init__ rejects is replaced by the empty band list before the
\* test and constructs an instance without bands; so no Bands instance
\* holds two overlapping bands.
C29_ValidOverlapRejected ==
    /\ hist.strategy_call.op = "construct" =>
           (hist.strategy_call.raised <=>
                /\ HoldsOverlap(hist.strategy_call.config)
                /\ \A i \in DOMAIN hist.strategy_call.config :
                      band_is_valid(hist.strategy_call.config[i]))
    /\ hist.strategy_call.op = "construct" /\ ~ hist.strategy_call.raised
           => bands = built_bands(hist.strategy_call.config)
    /\ ~ HoldsOverlap(bands)

\* the constructor failed on two valid overlapping bands that are not
\* neighbours in the configuration, and the instance built before stays
C29_Witness ==
    /\ hist.strategy_call.op = "construct"
    /\ hist.strategy_call.raised
    /\ Len(hist.strategy_call.config) = 3
    /\ ~ two_bands_overlap(hist.strategy_call.config[1], hist.strategy_call.config[2])
    /\ two_bands_overlap(hist.strategy_call.config[1], hist.strategy_call.config[3])
    /\ bands = hist.strategy_call.before


\* C30: when the target price is absent, cancellable_orders returns all
\* the given orders as the cancellation set, and nothing is placed.
C30_NoPriceCancelsAll ==
    (hist.strategy_call.op = "cancellable_orders"
     /\ hist.strategy_call.target_prices.A = NonePrice) =>
        /\ ~ hist.strategy_call.raised
        /\ hist.strategy_call.orders_to_cancel = hist.strategy_call.orders
        /\ hist.strategy_call.orders_to_place = <<>>


\* C36: after any sequence of apply_snapshot, apply_delta and getter calls
\* a set best-bid cache is a key of bids and the highest of them, a set
\* best-ask cache is a key of asks and the lowest of them, so that the
\* getters return what a scan of the side returns (none on an empty side).
C36_CachesAgreeWithScan ==
    /\ best_bid_cache # 0 =>
           best_bid_cache \in DOMAIN bids /\ best_bid_cache = MaxOf(DOMAIN bids)
    /\ best_ask_cache # 0 =>
           best_ask_cache \in DOMAIN asks /\ best_ask_cache = MinOf(DOMAIN asks)
    /\ get_best_bid(bids, best_bid_cache) = get_best_bid(bids, 0)
    /\ get_best_ask(asks, best_ask_cache) = get_best_ask(asks, 0)

\* with both caches set by the getters, a delta removed the level the
\* best-ask cache held: the cache is cleared and asks remain
C36_Witness ==
    /\ hist.book_call.op = "apply_delta"
    /\ hist.book_call.delta.side = "sell"
    /\ hist.book_call.delta.size = Num(0)
    /\ hist.book_call.before.best_ask_cache = hist.book_call.delta.price.v
    /\ best_ask_cache = 0
    /\ best_bid_cache # 0
    /\ DOMAIN asks # {}


\* C35: in every reachable state every band the strategy holds satisfies
\* min_margin <= avg_margin <= max_margin, min_margin < max_margin and
\* 0 <= min_amount <= avg_amount <= max_amount, also after the rebasing
\* of avg_margin by _calculate_virtual_bands.
C35_BandsStayValid == \A i \in DOMAIN bands : band_is_valid(bands[i])


\* C37: a second get_orders call with the same target prices and the
\* emitted orders added to the open orders puts none of the emitted
\* orders in orders_to_cancel.
C37_EmittedOrdersStay ==
    hist.strategy_call.op = "get_orders_again" =>
        \A i \in DOMAIN hist.strategy_call.orders_to_cancel :
            hist.strategy_call.orders_to_cancel[i].id < EmittedIdBase


\* the orders of the call a band holds at the target price of a token
InBandOrders(call, band, token) ==
    LET InBand(order) ==
            includes(band, order, call.target_prices[token], vanilla_mode)
    IN  SelectSeq(OrdersOfToken(call.orders, token, vanilla_mode), InBand)

\* the bands get_orders walks for a token: includes and the choice of the
\* bands read min_margin and max_margin only
VirtualBands(call, token) ==
    IF call.target_prices[token] = NonePrice THEN <<>>
    ELSE calculate_virtual_bands(bands, call.target_prices[token]).virtual

\* c goes before o in the order the band is said to cancel in
CancelsBefore(c, o, target_price, is_first_band, is_last_band) ==
    IF is_first_band
    THEN Abs(c.price - target_price) <= Abs(o.price - target_price)
    ELSE IF is_last_band
         THEN Abs(c.price - target_price) >= Abs(o.price - target_price)
         ELSE c.size <= o.size

\* what is cancelled of a band and what stays
ExcessInOrder(inband, cancelled, max_amount, target_price, is_first_band, is_last_band) ==
    LET gone == {i \in DOMAIN inband : inband[i] \in cancelled}
        left == DOMAIN inband \ gone
        remaining == SumSeq([i \in DOMAIN inband |->
                                IF i \in left THEN inband[i].size ELSE 0])
    IN  /\ remaining <= max_amount
        /\ gone # {} => \E i \in gone : remaining + inband[i].size > max_amount
        /\ \A i \in gone, j \in left :
               CancelsBefore(inband[i], inband[j], target_price,
                             is_first_band, is_last_band)

\* C32: a band whose orders exceed max_amount cancels until the remaining
\* aggregate is within max_amount and no further: the first band the
\* orders nearest the target price first, the last band the furthest
\* first, every other band the smallest first.
C32_ExcessCancelOrder ==
    hist.strategy_call.op = "get_orders" =>
        \A token \in Range(tradable_tokens) :
            \A k \in DOMAIN VirtualBands(hist.strategy_call, token) :
                ExcessInOrder(
                    InBandOrders(hist.strategy_call,
                                 bands[VirtualBands(hist.strategy_call, token)[k]],
                                 token),
                    Range(hist.strategy_call.orders_to_cancel),
                    bands[VirtualBands(hist.strategy_call, token)[k]].max_amount,
                    hist.strategy_call.target_prices[token],
                    k = 1,
                    k = Len(VirtualBands(hist.strategy_call, token)))


\* the order is strictly inside a band get_orders walks for its token
InsideSomeBand(call, order, token) ==
    \E k \in DOMAIN VirtualBands(call, token) :
        includes(bands[VirtualBands(call, token)[k]], order,
                 call.target_prices[token], vanilla_mode)

\* the band holds the order and no more than its max_amount
InsideBandWithinMax(call, order, token) ==
    \E k \in DOMAIN VirtualBands(call, token) :
        /\ includes(bands[VirtualBands(call, token)[k]], order,
                    call.target_prices[token], vanilla_mode)
        /\ BandAmount(bands[VirtualBands(call, token)[k]],
                      OrdersOfToken(call.orders, token, vanilla_mode),
                      call.target_prices[token], vanilla_mode)
               <= bands[VirtualBands(call, token)[k]].max_amount

\* the token whose bands look at the order
BuyTokenOf(order) ==
    IF vanilla_mode \/ order.side = "BUY" THEN order.token
    ELSE complement(order.token)

EmittedFor(call, band, token, side) ==
    {i \in DOMAIN call.orders_to_place :
        /\ call.orders_to_place[i].side = side
        /\ IF side = "BUY"
           THEN /\ call.orders_to_place[i].token = token
                /\ call.orders_to_place[i].price =
                       buy_price(band, call.target_prices[token])
           ELSE /\ call.orders_to_place[i].token =
                       (IF vanilla_mode THEN token ELSE complement(token))
                /\ call.orders_to_place[i].price =
                       sell_price(band, call.target_prices[token])}

EmittedSize(call, band, token) ==
    SumSeq([i \in DOMAIN call.orders_to_place |->
               IF i \in EmittedFor(call, band, token, "BUY")
                       \cup EmittedFor(call, band, token, "SELL")
               THEN call.orders_to_place[i].size ELSE 0])

\* what the call emitted for one band of one token, given the in-band amount
EmissionWithinBand(call, band, token, band_amount) ==
    /\ EmittedSize(call, band, token) > 0 => band_amount < band.min_amount
    /\ \A i \in EmittedFor(call, band, token, "SELL"),
          j \in EmittedFor(call, band, token, "BUY") : i < j
    /\ EmittedSize(call, band, token) > 0
           => EmittedSize(call, band, token) <= band.avg_amount - band_amount

\* C34: orders are emitted for a band only when its in-band aggregate is
\* below min_amount, the SELL before the BUY, and their sizes sum to at
\* most avg_amount minus the in-band aggregate.
C34_EmissionUpToAvg ==
    hist.strategy_call.op = "get_orders" =>
        \A token \in Range(tradable_tokens) :
            \A k \in DOMAIN VirtualBands(hist.strategy_call, token) :
                EmissionWithinBand(
                    hist.strategy_call,
                    bands[VirtualBands(hist.strategy_call, token)[k]], token,
                    BandAmount(bands[VirtualBands(hist.strategy_call, token)[k]],
                               OrdersOfToken(hist.strategy_call.orders, token,
                                             vanilla_mode),
                               hist.strategy_call.target_prices[token],
                               vanilla_mode))


\* a cancel task submitted by cancel_orders or cancel_all_orders has not
\* completed: its done-callback has not run
CancelTaskOutstanding ==
    \E i \in DOMAIN pool : pool[i].kind \in {"cancel", "cancel_all"}

\* C38: has_pending_cancels is true whenever a cancel task dispatched by
\* cancel_orders or cancel_all_orders has not completed, also when two
\* overlapping dispatches submitted the same order id and one of the two
\* tasks has completed.
C38_PendingWhileTaskOutstanding ==
    CancelTaskOutstanding => has_pending_cancels


\* the ids get_order_book returns after the step
BookIdsAfterStep ==
    Ids(BookOrders(state', orders_placed', order_ids_cancelling',
                   order_ids_cancelled'))

\* the orders whose placement completed after the first locked block of
\* the iteration
PlacedDuringFetch ==
    {orders_placed[k].id : k \in (Len(rec.placed_before) + 1)..Len(orders_placed)}

\* C39: when a reconcile replaces the orders with the fetched list, an
\* order whose placement completed while the fetch was in flight is still
\* returned by get_order_book (unless it is being cancelled), and an order
\* whose cancel task completed successfully during the fetch stays absent
\* from get_order_book, also when the fetched list still contains it.
C39_ReconcileKeepsConcurrentChanges ==
    [][ (IsCommitStep /\ rec.orders # <<>>)
        => /\ PlacedDuringFetch \ order_ids_cancelling' \subseteq BookIdsAfterStep
           /\ rec.cancel_done \cap BookIdsAfterStep = {} ]_vars


\* the last message was a book event that apply_snapshot stored and whose
\* call of _try_trigger_strategy was debounced
BookEventDebounced ==
    /\ listener.running
    /\ listener.last.kind = "book"
    /\ listener.last.tried
    /\ ~ listener.last.fired

\* C40: every market event applied to the ShadowBook is eventually
\* followed by an invocation of the synchronisation callback that reads a
\* book containing it (while the listener is running), also when the
\* event itself was debounced and no further market event arrives.
C40_EventEventuallySynced ==
    BookEventDebounced ~> (listener.last.fired \/ ~ listener.running)


(***************************************************************************)
(* generate_ws_headers called by UserListener when it connects             *)
(***************************************************************************)
\* clock readings in milliseconds
AuthClocks == {999, 1000, 59999, 1700000500}

\* secrets: "dGhl", "dGh", "dG", "dG==" and "-_AA" are URL-safe base64
\* with or without padding; "d", "d G" and one with a character outside
\* ASCII are not
AuthSecrets ==
    {<<29, 6, 33, 37>>, <<29, 6, 33>>, <<29, 6>>, <<29, 6, PadChar, PadChar>>,
     <<62, 63, 0, 0>>, <<29>>, <<29, SpaceChar, 6>>, <<NonAsciiChar, 6>>}

AuthKeys == {"test-key", "other-key"}

AuthPassphrases == {"test-pass", "other-pass"}

AuthGenerateHeaders ==
    /\ \E clock_ms \in AuthClocks, api_key \in AuthKeys, api_secret \in AuthSecrets, api_passphrase \in AuthPassphrases :
          hist' = [hist EXCEPT !.auth_call =
                      AuthCall("generate_ws_headers", 1 - hist.auth_call.turn,
                               clock_ms, api_key, api_secret, api_passphrase,
                               generate_ws_headers(clock_ms, api_key, api_secret,
                                                   api_passphrase))]
    /\ UNCHANGED <<bands, bookVars, bootstrapped, listener, mgrVars, pool,
                   ex_orders, next_id, sync, rec, shut, direct>>

NextAuth == AuthGenerateHeaders

SpecAuth == Init /\ [][NextAuth]_vars

(***************************************************************************)
(* Properties of generate_ws_headers                                       *)
(***************************************************************************)
\* the number a decimal string writes
RECURSIVE ParseDecimal(_)
ParseDecimal(s) ==
    LET value(c) == CHOOSE d \in 0..9 : DecimalString(d) = <<c>>
    IN  IF s = <<>> THEN 0
        ELSE 10 * ParseDecimal(SubSeq(s, 1, Len(s) - 1)) + value(s[Len(s)])

\* the characters of the secret before its padding
SecretData(secret) ==
    LET IsData(c) == c # PadChar
    IN  SelectSeq(secret, IsData)

\* the secret is the URL-safe base64 text of some bytes, with its padding
\* or without
IsBase64Secret(secret) ==
    /\ \A i \in DOMAIN secret : secret[i] <= PadChar
    /\ \A i, j \in DOMAIN secret : (secret[i] = PadChar /\ i < j) => secret[j] = PadChar
    /\ Len(SecretData(secret)) % 4 # 1
    /\ Len(SecretData(secret)) # Len(secret) => Len(secret) % 4 = 0

\* the bytes a base64 text stands for: bit n of the text is bit n of the
\* bytes, six bits to a character, eight to a byte
DecodedBit(data, n) == (data[(n \div 6) + 1] \div (2 ^ (5 - (n % 6)))) % 2

DecodedSecret(secret) ==
    [k \in 1..((6 * Len(SecretData(secret))) \div 8) |->
        SumSeq([j \in 1..8 |->
                   DecodedBit(SecretData(secret), 8 * (k - 1) + (j - 1)) * (2 ^ (8 - j))])]

\* the headers of the call are what the contract says for its clock and
\* its arguments
HeadersAsSpecified(call) ==
    /\ ParseDecimal(call.headers.timestamp) * 1000 <= call.clock_ms
    /\ call.clock_ms < (ParseDecimal(call.headers.timestamp) + 1) * 1000
    /\ call.headers.timestamp = DecimalString(ParseDecimal(call.headers.timestamp))
    /\ IsBase64Secret(call.api_secret) =>
           call.headers.signature =
               urlsafe_b64encode(
                   HmacSha256(DecodedSecret(call.api_secret),
                              call.headers.timestamp
                                  \o <<"G", "E", "T", "/", "w", "s", "/", "u", "s", "e", "r">>))

SameAuthArguments(c, d) ==
    /\ c.op = d.op
    /\ c.clock_ms = d.clock_ms
    /\ c.api_key = d.api_key
    /\ c.api_secret = d.api_secret
    /\ c.api_passphrase = d.api_passphrase

=============================================================================
